---- MODULE Spec2Model ----
(***************************************************************************)
(* Attendance clock-in / clock-out workflow of app/(tabs)/index.tsx        *)
(* (the MainMenu screen) against the work_shifts / work_events tables.     *)
(*                                                                         *)
(* One user session on one device.  Every `await` of the handlers is a     *)
(* suspension point and hence a step boundary; React state read inside a   *)
(* useCallback is the value captured by the render that created the        *)
(* callback, so an operation carries the `busy` and `att` it captured when *)
(* the confirm button was pressed.                                         *)
(*                                                                         *)
(* Units: time is counted in minutes (UTC); coordinates are metres of arc  *)
(* in a local frame (latitude along the meridian, longitude along the      *)
(* parallel of the center).                                                *)
(***************************************************************************)
EXTENDS Integers, Sequences, FiniteSets, TLC

\* ---------------------------------------------------------------- bounds
MaxOps == 2          \* clock operations confirmed in the session
MaxTicks == 1        \* minutes that pass during the session
MaxFocusReloads == 1 \* focus-triggered reloads of the today record
MaxTaps == 2         \* taps on the submit button of the report form

\* ------------------------------------------------------- program constants
CENTER_LAT == 4122870     \* 37.0778566841938 deg, in metres of meridian arc
CENTER_LNG == 11262545    \* 126.954553958864 deg, in metres of arc of the parallel
MAX_DISTANCE_M == 1000
ALLOW_FALLBACK_CLOCK == TRUE
KST_OFFSET_MIN == 540     \* 9 * 60 * 60 * 1000 ms
DAY_MIN == 1440           \* toISOString().slice(0, 10): one calendar day

\* the session opens at 14:59 UTC, 23:59 KST of day 0
StartMinute == 14 * 60 + 59

\* ---------------------------------------------------------- option values
None == <<>>
Some(x) == <<x>>
IsSome(o) == Len(o) = 1
Get(o) == o[1]

Abs(x) == IF x < 0 THEN -x ELSE x

\* ------------------------------------------------------------ pure helpers
\* kstNowDateString: the calendar day of (t + 9h)
kstDateString(t) == (t + KST_OFFSET_MIN) \div DAY_MIN

\* formatKSTTime: "-" (here the empty tuple) for a missing timestamp, else
\* <<HH, MM>> of (ts + 9h)
formatKSTTime(ts) ==
    IF ~IsSome(ts) THEN <<>>
    ELSE LET k == Get(ts) + KST_OFFSET_MIN
         IN  <<(k \div 60) % 24, k % 60>>

RECURSIVE ISqrtFrom(_, _)
\* Newton's iteration down from x >= sqrt(n)
ISqrtFrom(n, x) ==
    LET y == (x + n \div x) \div 2
    IN  IF y >= x THEN x ELSE ISqrtFrom(n, y)

\* the integer part of Math.sqrt(n)
ISqrt(n) == IF n = 0 THEN 0 ELSE ISqrtFrom(n, n)

\* a JavaScript number: finite with a value, or not finite (NaN, Infinity)
Num(v) == [fin |-> TRUE, v |-> v]
NaN == [fin |-> FALSE, v |-> 0]
IsFinite(x) == x.fin

\* distanceMeters: great-circle distance; in the local metric frame the
\* haversine of two nearby points is the Euclidean length of the offset, and
\* arithmetic on a non-finite argument yields a non-finite result.
distanceMeters(lat1, lon1, lat2, lon2) ==
    IF ~(lat1.fin /\ lon1.fin /\ lat2.fin /\ lon2.fin) THEN NaN
    ELSE LET dLat == lat2.v - lat1.v
             dLon == lon2.v - lon1.v
         IN  IF dLon = 0 THEN Num(Abs(dLat))
             ELSE IF dLat = 0 THEN Num(Abs(dLon))
             ELSE Num(ISqrt(dLat * dLat + dLon * dLon))

\* ----------------------------------------------------------------- state
VARIABLES
    now,                 \* wall clock, minutes
    sessionOk,           \* the auth session exists (false after signOut)
    mounted,             \* MainMenu is on screen (false after router.replace)
    shifts,              \* backend table work_shifts: a set of rows
    events,              \* backend table work_events: a set of rows
    att,                 \* React state att: None or Some(row)
    busy,                \* React state busy
    clockInConfirmOpen,  \* React state
    clockOutConfirmOpen, \* React state
    watchdog,            \* watchdogRef: the pending 35 s timer
    alert,               \* the Alert.alert call of the last step, if any
    ops,                 \* the confirmed clock operations, by start order
    nOps,                \* how many have been confirmed
    reloads,             \* loadTodayAttendance calls in flight
    logoutPc,            \* onLogout's onPress: "idle" or "signout"
    nFocus,              \* how many focus reloads have been started
    acq,                 \* one run of the location acquisition, taken alone
    relay,               \* one request to the send-hazard-push function
    geo,                 \* one measurement by distanceMeters
    watch,               \* one call of getPositionByWatching, taken alone
    report,              \* the hazard report form and its submissions
    timed,               \* one clock operation with its timers, in seconds
    chain                \* the strategy chain behind the outer deadline

vars == <<now, sessionOk, mounted, shifts, events, att, busy, clockInConfirmOpen,
          clockOutConfirmOpen, watchdog, alert, ops, nOps, reloads, logoutPc, nFocus,
          acq, relay, geo, watch, report, timed, chain>>

OpIds == 1..MaxOps

\* ------------------------------------------------------------------ rows
\* AttendanceRow (single user: user_id is the session's user throughout)
NewRow(id, date) ==
    [id |-> id, work_date |-> date, status |-> "open",
     clock_in_at |-> None, clock_in_lat |-> None, clock_in_lng |-> None,
     clock_in_accuracy_m |-> None, clock_in_source |-> None,
     clock_out_at |-> None, clock_out_lat |-> None, clock_out_lng |-> None,
     clock_out_accuracy_m |-> None, clock_out_source |-> None]

\* the upsert payloads of doClockIn and doClockOut
ClockInPayload(workDate, nowIso, loc, source) ==
    [work_date |-> workDate, status |-> "open", clock_in_at |-> Some(nowIso),
     clock_in_lat |-> Some(loc.lat), clock_in_lng |-> Some(loc.lng),
     clock_in_accuracy_m |-> loc.accuracy, clock_in_source |-> Some(source)]

ClockOutPayload(workDate, nowIso, loc, source) ==
    [work_date |-> workDate, status |-> "closed", clock_out_at |-> Some(nowIso),
     clock_out_lat |-> Some(loc.lat), clock_out_lng |-> Some(loc.lng),
     clock_out_accuracy_m |-> loc.accuracy, clock_out_source |-> Some(source)]

\* (variant) an upsert that replaces the whole row by the payload
MergeReplace(row, payload) ==
    [f \in DOMAIN row |-> IF f \in DOMAIN payload THEN payload[f]
                          ELSE NewRow(row.id, row.work_date)[f]]

\* a row with the columns of the payload overwritten, the others kept
Merge(row, payload) ==
    [f \in DOMAIN row |-> IF f \in DOMAIN payload THEN payload[f] ELSE row[f]]

RowsOf(table, date) == {r \in table : r.work_date = date}

\* (variant) a plain insert in place of the upsert
UpsertAsInsert(table, payload) ==
    table \cup {Merge(NewRow(Cardinality(table) + 1, payload.work_date), payload)}

\* .upsert(payload, { onConflict: "user_id,work_date" }): update the row with
\* the payload's key if there is one, insert a new row otherwise
Upsert(table, payload) ==
    IF RowsOf(table, payload.work_date) # {}
    THEN {IF r.work_date = payload.work_date THEN Merge(r, payload) ELSE r : r \in table}
    ELSE table \cup {Merge(NewRow(Cardinality(table) + 1, payload.work_date), payload)}

\* .select(...).single() after the upsert: the row of the payload's key
Upserted(table, payload) ==
    CHOOSE r \in RowsOf(Upsert(table, payload), payload.work_date) : TRUE

\* .select(...).eq("work_date", d).maybeSingle()
MaybeSingle(table, date) ==
    IF RowsOf(table, date) = {} THEN None
    ELSE Some(CHOOSE r \in RowsOf(table, date) : TRUE)

\* ------------------------------------------------------ location results
FallbackLoc ==
    [lat |-> CENTER_LAT, lng |-> CENTER_LNG, dist |-> 0, accuracy |-> None,
     fallback |-> TRUE, source |-> "fallback_center"]

\* (variant) the fallback-or-fail branch with the fallback switched off
FallbackOrFailDisabled(title) ==
    [loc |-> None, alert |-> Some([title |-> title, body |-> <<>>])]

\* the fallback-or-fail branch of getCurrentLocationChecked
FallbackOrFail(title) ==
    IF ALLOW_FALLBACK_CLOCK
    THEN [loc |-> Some(FallbackLoc), alert |-> None]
    ELSE [loc |-> None, alert |-> Some([title |-> title, body |-> <<>>])]

\* (variant) getCurrentLocationChecked without the distance check
CheckedLocNoGeofence(result) ==
    IF ~IsSome(result) THEN FallbackOrFail("location_failed")
    ELSE LET lat == Get(result).pos.latitude
             lng == Get(result).pos.longitude
             accuracy == Get(result).pos.accuracy
             dist == distanceMeters(lat, lng, Num(CENTER_LAT), Num(CENTER_LNG))
         IN  IF ~IsFinite(lat) \/ ~IsFinite(lng) THEN FallbackOrFail("location_error")
             ELSE IF ~IsFinite(dist) THEN FallbackOrFail("location_error")
             ELSE [loc |-> Some([lat |-> lat.v, lng |-> lng.v, dist |-> dist.v,
                                 accuracy |-> accuracy, fallback |-> FALSE,
                                 source |-> Get(result).source]),
                   alert |-> None]

\* (variant) a geofence that rejects the boundary itself
CheckedLocExclusive(result) ==
    IF ~IsSome(result) THEN FallbackOrFail("location_failed")
    ELSE LET lat == Get(result).pos.latitude
             lng == Get(result).pos.longitude
             accuracy == Get(result).pos.accuracy
             dist == distanceMeters(lat, lng, Num(CENTER_LAT), Num(CENTER_LNG))
         IN  IF ~IsFinite(lat) \/ ~IsFinite(lng) THEN FallbackOrFail("location_error")
             ELSE IF ~IsFinite(dist) THEN FallbackOrFail("location_error")
             ELSE IF dist.v >= MAX_DISTANCE_M
                  THEN [loc |-> None,
                        alert |-> Some([title |-> "out_of_range", body |-> <<dist.v>>])]
             ELSE [loc |-> Some([lat |-> lat.v, lng |-> lng.v, dist |-> dist.v,
                                 accuracy |-> accuracy, fallback |-> FALSE,
                                 source |-> Get(result).source]),
                   alert |-> None]

\* (variant) getCurrentLocationChecked without the Number.isFinite checks
CheckedLocNoFiniteCheck(result) ==
    IF ~IsSome(result) THEN FallbackOrFail("location_failed")
    ELSE LET lat == Get(result).pos.latitude
             lng == Get(result).pos.longitude
             accuracy == Get(result).pos.accuracy
             dist == distanceMeters(lat, lng, Num(CENTER_LAT), Num(CENTER_LNG))
         IN  IF dist.v > MAX_DISTANCE_M
                  THEN [loc |-> None,
                        alert |-> Some([title |-> "out_of_range", body |-> <<dist.v>>])]
             ELSE [loc |-> Some([lat |-> lat.v, lng |-> lng.v, dist |-> dist.v,
                                 accuracy |-> accuracy, fallback |-> FALSE,
                                 source |-> Get(result).source]),
                   alert |-> None]

\* getCurrentLocationChecked after the acquisition returned `result`
\* (None when getReliablePositionForPhoneTotalTimeout threw)
CheckedLoc(result) ==
    IF ~IsSome(result) THEN FallbackOrFail("location_failed")
    ELSE LET lat == Get(result).pos.latitude
             lng == Get(result).pos.longitude
             accuracy == Get(result).pos.accuracy
             dist == distanceMeters(lat, lng, Num(CENTER_LAT), Num(CENTER_LNG))
         IN  IF ~IsFinite(lat) \/ ~IsFinite(lng) THEN FallbackOrFail("location_error")
             ELSE IF ~IsFinite(dist) THEN FallbackOrFail("location_error")
             ELSE IF dist.v > MAX_DISTANCE_M
                  THEN [loc |-> None,
                        alert |-> Some([title |-> "out_of_range", body |-> <<dist.v>>])]
             ELSE [loc |-> Some([lat |-> lat.v, lng |-> lng.v, dist |-> dist.v,
                                 accuracy |-> accuracy, fallback |-> FALSE,
                                 source |-> Get(result).source]),
                   alert |-> None]

\* what the acquisition can hand back: a fix on the geofence boundary, a fix
\* one metre beyond it, or nothing (all strategies failed / outer deadline)
Fixes ==
    { [pos |-> [latitude |-> Num(CENTER_LAT + 1000), longitude |-> Num(CENTER_LNG),
                accuracy |-> Some(15)], source |-> "last_known"],
      [pos |-> [latitude |-> Num(CENTER_LAT + 1001), longitude |-> Num(CENTER_LNG),
                accuracy |-> None], source |-> "watch_high"] }

AcquireResults == {None} \cup {Some(f) : f \in Fixes}

\* --------------------------------------------------------- operations
\* an Alert.alert call: its title and the numbers its body carries
Msg(title, body) == [title |-> title, body |-> body]
NoAlert == Msg("", <<>>)

\* one doClockIn / doClockOut call.  busySeen and attSeen are the `busy` and
\* `att` of the closure.  History kept for the properties: okBefore, the calls
\* that had ended in success when this one was confirmed; wroteShift,
\* wroteEvent, setBusy, what the call has done; `end`, how it ended.
FreeOp ==
    [pc |-> "free", kind |-> "in", busySeen |-> FALSE, attSeen |-> None,
     okBefore |-> {}, loc |-> None, nowIso |-> None, workDate |-> None, res |-> None,
     wroteShift |-> FALSE, wroteEvent |-> FALSE, setBusy |-> FALSE, end |-> ""]

InFlightPcs == {"session", "checks", "acquire", "upsert", "upserted"}

InFlight(o) == ops[o].pc \in InFlightPcs

\* a finished call keeps only its history
Ended(op, how) ==
    [op EXCEPT !.pc = "done", !.end = how, !.busySeen = FALSE, !.attSeen = None,
               !.loc = None, !.nowIso = None, !.res = None]

NoWatchdog == [armed |-> FALSE, owner |-> 0, label |-> ""]

\* startWatchdog(label): clear the pending timer, arm a new 35 s one
startWatchdog(o, label) == [armed |-> TRUE, owner |-> o, label |-> label]

\* no acquisition run and no relay request has started
NoAcq == [pc |-> "idle"]
NoRelay == [pc |-> "idle"]
NoGeo == [pc |-> "idle"]
NoWatch == [pc |-> "idle"]
NoReport == [pc |-> "idle"]
NoTimed == [pc |-> "idle"]
NoChain == [pc |-> "idle"]

\* the row of a clock-in made on day 0 before this session opened
PriorRow ==
    Merge(NewRow(1, kstDateString(StartMinute)),
          ClockInPayload(kstDateString(StartMinute), StartMinute - 1, FallbackLoc,
                         FallbackLoc.source))

Init ==
    /\ now = StartMinute
    /\ sessionOk = TRUE
    /\ mounted = TRUE
    /\ shifts \in {{}, {PriorRow}}
    /\ events = {}
    /\ att = None
    /\ busy = FALSE
    /\ clockInConfirmOpen = FALSE
    /\ clockOutConfirmOpen = FALSE
    /\ watchdog = NoWatchdog
    /\ alert = NoAlert
    /\ ops = [o \in OpIds |-> FreeOp]
    /\ nOps = 0
    /\ reloads = {}
    /\ logoutPc = "idle"
    /\ nFocus = 0
    /\ acq = NoAcq
    /\ relay = NoRelay
    /\ geo = NoGeo
    /\ watch = NoWatch
    /\ report = NoReport
    /\ timed = NoTimed
    /\ chain = NoChain

\* the main buttons answer while no modal is over them
ButtonsFree == mounted /\ ~clockInConfirmOpen /\ ~clockOutConfirmOpen /\ logoutPc = "idle"

\* onClockIn: the clock-in button (disabled while busy)
onClockIn ==
    /\ ButtonsFree
    /\ ~busy
    /\ IF IsSome(att) /\ IsSome(Get(att).clock_in_at)
       THEN /\ alert' = Msg("already_in", formatKSTTime(Get(att).clock_in_at))
            /\ UNCHANGED clockInConfirmOpen
       ELSE /\ clockInConfirmOpen' = TRUE
            /\ alert' = NoAlert
    /\ UNCHANGED <<now, sessionOk, mounted, shifts, events, att, busy,
                   clockOutConfirmOpen, watchdog, ops, nOps, reloads, logoutPc, nFocus, acq, relay, geo, watch, report, timed, chain>>

\* onClockOut: the clock-out button (disabled while busy)
onClockOut ==
    /\ ButtonsFree
    /\ ~busy
    /\ IF ~(IsSome(att) /\ IsSome(Get(att).clock_in_at))
       THEN /\ alert' = Msg("no_clock_in", <<>>)
            /\ UNCHANGED clockOutConfirmOpen
       ELSE IF IsSome(Get(att).clock_out_at)
       THEN /\ alert' = Msg("already_out", formatKSTTime(Get(att).clock_out_at))
            /\ UNCHANGED clockOutConfirmOpen
       ELSE /\ clockOutConfirmOpen' = TRUE
            /\ alert' = NoAlert
    /\ UNCHANGED <<now, sessionOk, mounted, shifts, events, att, busy,
                   clockInConfirmOpen, watchdog, ops, nOps, reloads, logoutPc, nFocus, acq, relay, geo, watch, report, timed, chain>>

\* the confirm modals' "no" button, backdrop and onRequestClose
ConfirmClose ==
    /\ clockInConfirmOpen \/ clockOutConfirmOpen
    /\ clockInConfirmOpen' = FALSE
    /\ clockOutConfirmOpen' = FALSE
    /\ alert' = NoAlert
    /\ UNCHANGED <<now, sessionOk, mounted, shifts, events, att, busy,
                   watchdog, ops, nOps, reloads, logoutPc, nFocus, acq, relay, geo, watch, report, timed, chain>>

\* the confirm modals' "yes" button: close the modal and
\* setTimeout(() => doClockIn(), 300) with the callback of this render
ConfirmYes ==
    /\ mounted
    /\ clockInConfirmOpen \/ clockOutConfirmOpen
    /\ nOps < MaxOps
    /\ nOps' = nOps + 1
    /\ ops' = [ops EXCEPT ![nOps + 1] =
                  [FreeOp EXCEPT !.pc = "deferred",
                                 !.kind = IF clockInConfirmOpen THEN "in" ELSE "out",
                                 !.busySeen = busy, !.attSeen = att,
                                 !.okBefore = {p \in OpIds : ops[p].end = "ok"}]]
    /\ clockInConfirmOpen' = FALSE
    /\ clockOutConfirmOpen' = FALSE
    /\ alert' = NoAlert
    /\ UNCHANGED <<now, sessionOk, mounted, shifts, events, att, busy,
                   watchdog, reloads, logoutPc, nFocus, acq, relay, geo, watch, report, timed, chain>>

\* (variant) a finally that stops the watchdog and leaves busy set
FinallyKeepsBusy(o, how) ==
    /\ watchdog' = NoWatchdog
    /\ busy' = busy
    /\ ops' = [ops EXCEPT ![o] = Ended(@, how)]

\* the `finally` of doClockIn / doClockOut: stopWatchdog(); setBusy(false)
Finally(o, how) ==
    /\ watchdog' = NoWatchdog
    /\ busy' = FALSE
    /\ ops' = [ops EXCEPT ![o] = Ended(@, how)]

\* the deferred call starts: `if (busy) return`, else await requireSession()
OpStart(o) ==
    /\ ops[o].pc = "deferred"
    /\ ops' = [ops EXCEPT ![o] = IF @.busySeen THEN Ended(@, "busy")
                                 ELSE [@ EXCEPT !.pc = "session"]]
    /\ alert' = NoAlert
    /\ UNCHANGED <<now, sessionOk, mounted, shifts, events, att, busy, clockInConfirmOpen,
                   clockOutConfirmOpen, watchdog, nOps, reloads, logoutPc, nFocus, acq, relay, geo, watch, report, timed, chain>>

\* (variant) doClockOut without its clock_in_at check
PreconditionSkipsClockIn(kind, attSeen) ==
    LET hasIn == IsSome(attSeen) /\ IsSome(Get(attSeen).clock_in_at)
        hasOut == IsSome(attSeen) /\ IsSome(Get(attSeen).clock_out_at)
    IN  IF kind = "in"
        THEN IF hasIn THEN Some(Msg("already_in", formatKSTTime(Get(attSeen).clock_in_at)))
             ELSE None
        ELSE IF hasOut
             THEN Some(Msg("already_out", formatKSTTime(Get(attSeen).clock_out_at)))
        ELSE None

\* the precondition checks of doClockIn / doClockOut on the captured att:
\* the rejection message, or None when the call may go on
Precondition(kind, attSeen) ==
    LET hasIn == IsSome(attSeen) /\ IsSome(Get(attSeen).clock_in_at)
        hasOut == IsSome(attSeen) /\ IsSome(Get(attSeen).clock_out_at)
    IN  IF kind = "in"
        THEN IF hasIn THEN Some(Msg("already_in", formatKSTTime(Get(attSeen).clock_in_at)))
             ELSE None
        ELSE IF ~hasIn THEN Some(Msg("no_clock_in", <<>>))
             ELSE IF hasOut
                  THEN Some(Msg("already_out", formatKSTTime(Get(attSeen).clock_out_at)))
             ELSE None

\* requireSession() answers: no session -> return; precondition fails -> inform
\* and return; else setBusy(true), startWatchdog and the first location await
OpSession(o) ==
    /\ ops[o].pc = "session"
    /\ \E ok \in BOOLEAN :
        /\ ok => sessionOk
        /\ IF ~ok
           THEN /\ alert' = Msg("session", <<>>)
                /\ ops' = [ops EXCEPT ![o] = Ended(@, "no_session")]
                /\ UNCHANGED <<busy, watchdog>>
           ELSE IF IsSome(Precondition(ops[o].kind, ops[o].attSeen))
           THEN /\ alert' = Get(Precondition(ops[o].kind, ops[o].attSeen))
                /\ ops' = [ops EXCEPT ![o] =
                              Ended(@, Get(Precondition(@.kind, @.attSeen)).title)]
                /\ UNCHANGED <<busy, watchdog>>
           ELSE /\ busy' = TRUE
                /\ watchdog' = startWatchdog(o, "location")
                /\ ops' = [ops EXCEPT ![o] = [@ EXCEPT !.pc = "checks", !.setBusy = TRUE]]
                /\ alert' = NoAlert
    /\ UNCHANGED <<now, sessionOk, mounted, shifts, events, att, clockInConfirmOpen,
                   clockOutConfirmOpen, nOps, reloads, logoutPc, nFocus, acq, relay, geo, watch, report, timed, chain>>

\* getCurrentLocationChecked returned lr = [loc, alert]: with a fix, read the
\* clock, restart the watchdog and send the upsert; without, `return` through
\* the finally
AfterLoc(o, lr, how) ==
    /\ IF IsSome(lr.loc)
       THEN /\ ops' = [ops EXCEPT ![o] = [@ EXCEPT !.pc = "upsert", !.loc = lr.loc,
                                                   !.nowIso = Some(now),
                                                   !.workDate = Some(kstDateString(now))]]
            /\ watchdog' = startWatchdog(o, "save")
            /\ alert' = NoAlert
            /\ UNCHANGED busy
       ELSE /\ alert' = IF IsSome(lr.alert) THEN Get(lr.alert) ELSE NoAlert
            /\ Finally(o, how)
    /\ UNCHANGED <<now, sessionOk, mounted, shifts, events, att, clockInConfirmOpen,
                   clockOutConfirmOpen, nOps, reloads, logoutPc, nFocus, acq, relay, geo, watch, report, timed, chain>>

Rejected(title) == [loc |-> None, alert |-> Some(Msg(title, <<>>))]

\* the head of getCurrentLocationChecked, from the answers of
\* hasServicesEnabledAsync, getForegroundPermissionsAsync and
\* requestForegroundPermissionsAsync (each "throw" when it throws or times
\* out): go on to the acquisition, return null, or land in the outer catch
PermissionPhase(svc, perm, req) ==
    IF svc = "throw" THEN "throw"
    ELSE IF svc = "disabled" THEN "services_off"
    ELSE IF perm = "throw" THEN "throw"
    ELSE IF perm = "granted" THEN "acquire"
    ELSE IF req = "throw" THEN "throw"
    ELSE IF req = "granted" THEN "acquire"
    ELSE "permission_needed"

\* the service and permission awaits of getCurrentLocationChecked
LocChecks(o) ==
    /\ ops[o].pc = "checks"
    /\ \E svc \in {"enabled", "disabled", "throw"},
          perm \in {"granted", "undetermined", "throw"},
          req \in {"granted", "denied", "throw"} :
         LET r == PermissionPhase(svc, perm, req)
         IN  IF r = "acquire"
             THEN /\ ops' = [ops EXCEPT ![o] = [@ EXCEPT !.pc = "acquire"]]
                  /\ alert' = NoAlert
                  /\ UNCHANGED <<now, sessionOk, mounted, shifts, events, att, busy,
                                 clockInConfirmOpen, clockOutConfirmOpen, watchdog,
                                 nOps, reloads, logoutPc, nFocus, acq, relay, geo, watch, report, timed, chain>>
             ELSE IF r = "throw"
             THEN AfterLoc(o, FallbackOrFail("location_failed"), "location_failed")
             ELSE AfterLoc(o, Rejected(r), r)

\* getReliablePositionForPhoneTotalTimeout() answers or throws, then the
\* finite / distance / geofence checks
LocAcquire(o) ==
    /\ ops[o].pc = "acquire"
    /\ \E r \in AcquireResults :
         AfterLoc(o, CheckedLoc(r),
                  IF IsSome(CheckedLoc(r).alert) THEN Get(CheckedLoc(r).alert).title
                  ELSE "location_null")

\* the payload of the call's work_shifts upsert
Payload(op) ==
    IF op.kind = "in"
    THEN ClockInPayload(Get(op.workDate), Get(op.nowIso), Get(op.loc), Get(op.loc).source)
    ELSE ClockOutPayload(Get(op.workDate), Get(op.nowIso), Get(op.loc), Get(op.loc).source)

\* the backend executes the upsert and selects the row
UpsertCommit(o) ==
    /\ ops[o].pc = "upsert"
    /\ shifts' = Upsert(shifts, Payload(ops[o]))
    /\ ops' = [ops EXCEPT ![o] = [@ EXCEPT !.pc = "upserted", !.wroteShift = TRUE,
                                           !.res = Some(Upserted(shifts, Payload(ops[o])))]]
    /\ alert' = NoAlert
    /\ UNCHANGED <<now, sessionOk, mounted, events, att, busy, clockInConfirmOpen,
                   clockOutConfirmOpen, watchdog, nOps, reloads, logoutPc, nFocus, acq, relay, geo, watch, report, timed, chain>>

\* (variant) a catch that also resets the today record
UpsertFailResetsAtt(o) ==
    /\ \E why \in {"upsert_error", "upsert_timeout"} :
        /\ ops[o].pc \in (IF why = "upsert_error" THEN {"upsert"} ELSE {"upsert", "upserted"})
        /\ alert' = Msg(IF ops[o].kind = "in" THEN "clock_in_failed" ELSE "clock_out_failed",
                        <<>>)
        /\ Finally(o, why)
    /\ att' = None
    /\ UNCHANGED <<now, sessionOk, mounted, shifts, events, clockInConfirmOpen,
                   clockOutConfirmOpen, nOps, reloads, logoutPc, nFocus, acq, relay, geo, watch, report, timed, chain>>

\* the upsert answers with an error (nothing written), or the 12 s timeout
\* cuts the wait (written or not): catch -> alert the raw message -> finally
UpsertFail(o) ==
    /\ \E why \in {"upsert_error", "upsert_timeout"} :
        /\ ops[o].pc \in (IF why = "upsert_error" THEN {"upsert"} ELSE {"upsert", "upserted"})
        /\ alert' = Msg(IF ops[o].kind = "in" THEN "clock_in_failed" ELSE "clock_out_failed",
                        <<>>)
        /\ Finally(o, why)
    /\ UNCHANGED <<now, sessionOk, mounted, shifts, events, att, clockInConfirmOpen,
                   clockOutConfirmOpen, nOps, reloads, logoutPc, nFocus, acq, relay, geo, watch, report, timed, chain>>

\* (variant) an event row stamped with a clock reading of its own
EventRowOwnClock(op) ==
    [shift_id |-> Get(op.res).id,
     event_type |-> IF op.kind = "in" THEN "clock_in" ELSE "clock_out",
     occurred_at |-> Get(op.nowIso) + 1, lat |-> Get(op.loc).lat, lng |-> Get(op.loc).lng,
     accuracy_m |-> Get(op.loc).accuracy, source |-> Get(op.loc).source,
     payload |-> [work_date |-> Get(op.workDate)]]

\* the work_events row of the call
EventRow(op) ==
    [shift_id |-> Get(op.res).id,
     event_type |-> IF op.kind = "in" THEN "clock_in" ELSE "clock_out",
     occurred_at |-> Get(op.nowIso), lat |-> Get(op.loc).lat, lng |-> Get(op.loc).lng,
     accuracy_m |-> Get(op.loc).accuracy, source |-> Get(op.loc).source,
     payload |-> [work_date |-> Get(op.workDate)]]

\* loadTodayAttendance() past its requireSession(): the query for today's row
NewReload == [pc |-> "query", date |-> kstDateString(now), data |-> None]

\* (variant) a work_events failure that reaches the outer catch
UpsertReturnEventThrows(o) ==
    /\ ops[o].pc = "upserted"
    /\ \E stored \in BOOLEAN :
        /\ events' = IF stored THEN events \cup {EventRow(ops[o])} ELSE events
        /\ ops' = [ops EXCEPT ![o] = [Ended(@, "ok") EXCEPT !.wroteEvent = stored]]
        /\ att' = IF stored THEN ops[o].res ELSE att
        /\ alert' = IF stored
                    THEN Msg(IF ops[o].kind = "in" THEN "clock_in_done" ELSE "clock_out_done",
                             formatKSTTime(ops[o].nowIso))
                    ELSE Msg(IF ops[o].kind = "in" THEN "clock_in_failed"
                             ELSE "clock_out_failed", <<>>)
    /\ \E session \in BOOLEAN :
        /\ session => sessionOk
        /\ reloads' = IF session THEN reloads \cup {NewReload} ELSE reloads
    /\ watchdog' = NoWatchdog
    /\ busy' = FALSE
    /\ UNCHANGED <<now, sessionOk, mounted, shifts, clockInConfirmOpen,
                   clockOutConfirmOpen, nOps, logoutPc, nFocus, acq, relay, geo, watch, report, timed, chain>>

\* (variant) an answer that is dropped when the watchdog has fired meanwhile
UpsertReturnIfStillBusy(o) ==
    /\ ops[o].pc = "upserted"
    /\ \E stored \in BOOLEAN :
        /\ events' = IF stored THEN events \cup {EventRow(ops[o])} ELSE events
        /\ ops' = [ops EXCEPT ![o] = [Ended(@, "ok") EXCEPT !.wroteEvent = stored]]
    /\ att' = IF busy THEN ops[o].res ELSE att
    /\ alert' = Msg(IF ops[o].kind = "in" THEN "clock_in_done" ELSE "clock_out_done",
                    formatKSTTime(ops[o].nowIso))
    /\ \E session \in BOOLEAN :
        /\ session => sessionOk
        /\ reloads' = IF session THEN reloads \cup {NewReload} ELSE reloads
    /\ watchdog' = NoWatchdog
    /\ busy' = FALSE
    /\ UNCHANGED <<now, sessionOk, mounted, shifts, clockInConfirmOpen,
                   clockOutConfirmOpen, nOps, logoutPc, nFocus, acq, relay, geo, watch, report, timed, chain>>

\* the upsert's answer arrives without error; the work_events insert settles
\* (stored or not; its failure is swallowed); then setAtt(res.data), the
\* success alert, loadTodayAttendance() and the finally.  Nothing another
\* handler reads changes between the answer and the setAtt.
UpsertReturn(o) ==
    /\ ops[o].pc = "upserted"
    /\ \E stored \in BOOLEAN :
        /\ events' = IF stored THEN events \cup {EventRow(ops[o])} ELSE events
        /\ ops' = [ops EXCEPT ![o] = [Ended(@, "ok") EXCEPT !.wroteEvent = stored]]
    /\ att' = ops[o].res
    /\ alert' = Msg(IF ops[o].kind = "in" THEN "clock_in_done" ELSE "clock_out_done",
                    formatKSTTime(ops[o].nowIso))
    /\ \E session \in BOOLEAN :
        /\ session => sessionOk
        /\ reloads' = IF session THEN reloads \cup {NewReload} ELSE reloads
    /\ watchdog' = NoWatchdog
    /\ busy' = FALSE
    /\ UNCHANGED <<now, sessionOk, mounted, shifts, clockInConfirmOpen,
                   clockOutConfirmOpen, nOps, logoutPc, nFocus, acq, relay, geo, watch, report, timed, chain>>

\* the watchdog's 35 s timer fires: setBusy(false) and the delay alert.  The
\* timer is restarted at every phase; only the location phase (6 + 8 + 8 + 25 s
\* of timeouts) can outlast it, and only while the acquisition is awaited.
WatchdogFire ==
    /\ watchdog.armed
    /\ watchdog.label = "location"
    /\ ops[watchdog.owner].pc = "acquire"
    /\ busy' = FALSE
    /\ alert' = Msg("delayed", <<>>)
    /\ watchdog' = NoWatchdog
    /\ UNCHANGED <<now, sessionOk, mounted, shifts, events, att, clockInConfirmOpen,
                   clockOutConfirmOpen, ops, nOps, reloads, logoutPc, nFocus, acq, relay, geo, watch, report, timed, chain>>

\* ------------------------------------------------------------- reloads
\* useEffect / useFocusEffect: loadTodayAttendance(), whose requireSession()
\* either fails (alert, return) or lets the query go out
FocusReload ==
    /\ mounted
    /\ nFocus < MaxFocusReloads
    /\ nFocus' = nFocus + 1
    /\ \E session \in BOOLEAN :
        /\ session => sessionOk
        /\ reloads' = IF session THEN reloads \cup {NewReload} ELSE reloads
        /\ alert' = IF session THEN NoAlert ELSE Msg("session", <<>>)
    /\ UNCHANGED <<now, sessionOk, mounted, shifts, events, att, busy, clockInConfirmOpen,
                   clockOutConfirmOpen, watchdog, ops, nOps, logoutPc, acq, relay, geo, watch, report, timed, chain>>

\* the backend executes the select
ReloadRead(r) ==
    /\ r \in reloads
    /\ r.pc = "query"
    /\ reloads' = (reloads \ {r}) \cup
                  {[r EXCEPT !.pc = "reply", !.data = MaybeSingle(shifts, r.date)]}
    /\ alert' = NoAlert
    /\ UNCHANGED <<now, sessionOk, mounted, shifts, events, att, busy, clockInConfirmOpen,
                   clockOutConfirmOpen, watchdog, ops, nOps, logoutPc, nFocus, acq, relay, geo, watch, report, timed, chain>>

\* the answer arrives: setAtt(data ?? null)
ReloadReturn(r) ==
    /\ r \in reloads
    /\ r.pc = "reply"
    /\ att' = r.data
    /\ reloads' = reloads \ {r}
    /\ alert' = NoAlert
    /\ UNCHANGED <<now, sessionOk, mounted, shifts, events, busy, clockInConfirmOpen,
                   clockOutConfirmOpen, watchdog, ops, nOps, logoutPc, nFocus, acq, relay, geo, watch, report, timed, chain>>

\* the query errors or its 12 s timeout cuts the wait: catch -> setAtt(null)
ReloadFail(r) ==
    /\ r \in reloads
    /\ r.pc \in {"query", "reply"}
    /\ att' = None
    /\ reloads' = reloads \ {r}
    /\ alert' = NoAlert
    /\ UNCHANGED <<now, sessionOk, mounted, shifts, events, busy, clockInConfirmOpen,
                   clockOutConfirmOpen, watchdog, ops, nOps, logoutPc, nFocus, acq, relay, geo, watch, report, timed, chain>>

\* --------------------------------------------------------- environment
\* a minute passes
Tick ==
    /\ now < StartMinute + MaxTicks
    /\ now' = now + 1
    /\ alert' = NoAlert
    /\ UNCHANGED <<sessionOk, mounted, shifts, events, att, busy, clockInConfirmOpen,
                   clockOutConfirmOpen, watchdog, ops, nOps, reloads, logoutPc, nFocus, acq, relay, geo, watch, report, timed, chain>>

\* onLogout confirmed: setBusy(true), await signOut()
LogoutPress ==
    /\ ButtonsFree
    /\ ~busy
    /\ busy' = TRUE
    /\ logoutPc' = "signout"
    /\ alert' = NoAlert
    /\ UNCHANGED <<now, sessionOk, mounted, shifts, events, att, clockInConfirmOpen,
                   clockOutConfirmOpen, watchdog, ops, nOps, reloads, nFocus, acq, relay, geo, watch, report, timed, chain>>

\* signOut() answers (router.replace to the login screen, whose unmount stops
\* the watchdog) or times out; the finally clears busy
LogoutDone ==
    /\ logoutPc = "signout"
    /\ \E ok \in BOOLEAN :
        /\ sessionOk' = IF ok THEN FALSE ELSE sessionOk
        /\ mounted' = IF ok THEN FALSE ELSE mounted
        /\ watchdog' = IF ok THEN NoWatchdog ELSE watchdog
    /\ busy' = FALSE
    /\ logoutPc' = "idle"
    /\ alert' = NoAlert
    /\ UNCHANGED <<now, shifts, events, att, clockInConfirmOpen,
                   clockOutConfirmOpen, ops, nOps, reloads, nFocus, acq, relay, geo, watch, report, timed, chain>>

Next ==
    \/ onClockIn
    \/ onClockOut
    \/ ConfirmClose
    \/ ConfirmYes
    \/ \E o \in OpIds : OpStart(o)
    \/ \E o \in OpIds : OpSession(o)
    \/ \E o \in OpIds : LocChecks(o)
    \/ \E o \in OpIds : LocAcquire(o)
    \/ \E o \in OpIds : UpsertCommit(o)
    \/ \E o \in OpIds : UpsertFail(o)
    \/ \E o \in OpIds : UpsertReturn(o)
    \/ WatchdogFire
    \/ FocusReload
    \/ \E r \in reloads : ReloadRead(r)
    \/ \E r \in reloads : ReloadReturn(r)
    \/ \E r \in reloads : ReloadFail(r)
    \/ Tick
    \/ LogoutPress
    \/ LogoutDone

Spec == Init /\ [][Next]_vars

\* every await of a call is cut by a timeout, so a call that can step does
OpStep(o) ==
    \/ OpStart(o)
    \/ OpSession(o)
    \/ LocChecks(o)
    \/ LocAcquire(o)
    \/ UpsertCommit(o)
    \/ UpsertFail(o)
    \/ UpsertReturn(o)

\* the session within one minute and after its focus reload: the steps that
\* read or write busy, the watchdog and the calls, and the reloads the calls start
FairNext ==
    \/ onClockIn
    \/ onClockOut
    \/ ConfirmClose
    \/ ConfirmYes
    \/ \E o \in OpIds : OpStep(o)
    \/ WatchdogFire
    \/ \E r \in reloads : ReloadRead(r)
    \/ \E r \in reloads : ReloadReturn(r)
    \/ \E r \in reloads : ReloadFail(r)
    \/ LogoutPress
    \/ LogoutDone

\* timers fire and awaited calls answer or time out
FairSpec ==
    /\ Init
    /\ [][FairNext]_vars
    /\ \A o \in OpIds : WF_vars(OpStep(o))
    /\ WF_vars(LogoutDone)

\* ------------------------------------------------------- several devices
\* The backend sees of a device of the user only the upserts of its calls.
\* Each device runs this client against its own att, so here a device may
\* send a clock-in or clock-out upsert whenever it has no call in flight:
\* ops[o] is the call of device o.
DeviceSend(o) ==
    /\ ops[o].pc = "free"
    /\ \E kind \in {"in", "out"}, r \in AcquireResults :
        /\ IsSome(CheckedLoc(r).loc)
        /\ ops' = [ops EXCEPT ![o] =
                      [FreeOp EXCEPT !.pc = "upsert", !.kind = kind,
                                     !.loc = CheckedLoc(r).loc, !.nowIso = Some(now),
                                     !.workDate = Some(kstDateString(now))]]
    /\ alert' = NoAlert
    /\ UNCHANGED <<now, sessionOk, mounted, shifts, events, att, busy, clockInConfirmOpen,
                   clockOutConfirmOpen, watchdog, nOps, reloads, logoutPc, nFocus, acq, relay, geo, watch, report, timed, chain>>

\* the device's call ends (answer or timeout) after the backend has executed it
DeviceReturn(o) ==
    /\ ops[o].pc = "upserted"
    /\ ops' = [ops EXCEPT ![o] = FreeOp]
    /\ alert' = NoAlert
    /\ UNCHANGED <<now, sessionOk, mounted, shifts, events, att, busy, clockInConfirmOpen,
                   clockOutConfirmOpen, watchdog, nOps, reloads, logoutPc, nFocus, acq, relay, geo, watch, report, timed, chain>>

DevicesNext ==
    \/ \E o \in OpIds : DeviceSend(o)
    \/ \E o \in OpIds : UpsertCommit(o)
    \/ \E o \in OpIds : DeviceReturn(o)
    \/ Tick

DevicesSpec == Init /\ [][DevicesNext]_vars

\* ------------------------------------------------- location acquisition
\* One call of getCurrentLocationChecked past its permission checks, taken
\* alone: getReliablePositionForPhoneTotalTimeout tries last known, current
\* (lowest accuracy), watch (balanced), watch (high) in turn under the outer
\* deadline, then the finite / distance / geofence checks.
MaxSkipped == 1      \* non-finite fixes a watch delivers before a finite one

\* offsets from the center, in metres, whose length is a whole number
ProbeOffsets ==
    {<<0, 0>>, <<1000, 0>>, <<1001, 0>>, <<0, -1000>>, <<0, 1001>>, <<600, 800>>,
     <<-800, 600>>, <<-960, -280>>, <<3000, 4000>>}

\* coords of a LocationObject: finite ones at the offsets, with and without
\* an accuracy, and ones with a non-finite latitude or longitude
Positions ==
    {[latitude |-> Num(CENTER_LAT + d[1]), longitude |-> Num(CENTER_LNG + d[2]),
      accuracy |-> a] : d \in ProbeOffsets, a \in {None, Some(15)}}
    \cup {[latitude |-> NaN, longitude |-> Num(CENTER_LNG), accuracy |-> None],
          [latitude |-> Num(CENTER_LAT), longitude |-> NaN, accuracy |-> None],
          [latitude |-> NaN, longitude |-> NaN, accuracy |-> Some(15)]}

Strategies == <<"last_known", "current_lowest", "watch_balanced", "watch_high">>

StrategyPcs == {Strategies[k] : k \in 1..Len(Strategies)}

\* the place of a strategy in the chain, 0 for none
StrategyIndex(pc) ==
    IF pc \in StrategyPcs THEN CHOOSE k \in 1..Len(Strategies) : Strategies[k] = pc ELSE 0

\* the acquisition returns { pos, source }
Acquired(pos, source) ==
    [acq EXCEPT !.pc = "check", !.result = Some([pos |-> pos, source |-> source])]

\* getCurrentLocationChecked calls getReliablePositionForPhoneTotalTimeout
AcqStart ==
    /\ acq = NoAcq
    /\ acq' = [pc |-> "last_known", skipped |-> 0, result |-> None, failure |-> "",
               checked |-> None]
    /\ alert' = NoAlert
    /\ UNCHANGED <<now, sessionOk, mounted, shifts, events, att, busy, clockInConfirmOpen,
                   clockOutConfirmOpen, watchdog, ops, nOps, reloads, logoutPc, nFocus,
                   relay, geo, watch, report, timed, chain>>

\* (variant) a chain that goes from the last known position to the watches
LastKnownAnswerSkipsCurrent ==
    /\ acq.pc = "last_known"
    /\ \/ \E pos \in Positions : acq' = Acquired(pos, "last_known")
       \/ acq' = [acq EXCEPT !.pc = "watch_balanced"]
    /\ alert' = NoAlert
    /\ UNCHANGED <<now, sessionOk, mounted, shifts, events, att, busy, clockInConfirmOpen,
                   clockOutConfirmOpen, watchdog, ops, nOps, reloads, logoutPc, nFocus,
                   relay, geo, watch, report, timed, chain>>

\* getLastKnownPositionAsync answers a position, or null / throws / times out
LastKnownAnswer ==
    /\ acq.pc = "last_known"
    /\ \/ \E pos \in Positions : acq' = Acquired(pos, "last_known")
       \/ acq' = [acq EXCEPT !.pc = "current_lowest"]
    /\ alert' = NoAlert
    /\ UNCHANGED <<now, sessionOk, mounted, shifts, events, att, busy, clockInConfirmOpen,
                   clockOutConfirmOpen, watchdog, ops, nOps, reloads, logoutPc, nFocus,
                   relay, geo, watch, report, timed, chain>>

\* getCurrentPositionAsync({ accuracy: Lowest }) answers, or throws / times out
CurrentLowestAnswer ==
    /\ acq.pc = "current_lowest"
    /\ \/ \E pos \in Positions : acq' = Acquired(pos, "current_lowest")
       \/ acq' = [acq EXCEPT !.pc = "watch_balanced"]
    /\ alert' = NoAlert
    /\ UNCHANGED <<now, sessionOk, mounted, shifts, events, att, busy, clockInConfirmOpen,
                   clockOutConfirmOpen, watchdog, ops, nOps, reloads, logoutPc, nFocus,
                   relay, geo, watch, report, timed, chain>>

\* the callback of getPositionByWatching: a fix with a non-finite latitude or
\* longitude is passed over, a finite one resolves the promise
WatchCallback ==
    /\ acq.pc \in {"watch_balanced", "watch_high"}
    /\ \E pos \in Positions :
        IF ~IsFinite(pos.latitude) \/ ~IsFinite(pos.longitude)
        THEN /\ acq.skipped < MaxSkipped
             /\ acq' = [acq EXCEPT !.skipped = @ + 1]
        ELSE acq' = Acquired(pos, acq.pc)
    /\ alert' = NoAlert
    /\ UNCHANGED <<now, sessionOk, mounted, shifts, events, att, busy, clockInConfirmOpen,
                   clockOutConfirmOpen, watchdog, ops, nOps, reloads, logoutPc, nFocus,
                   relay, geo, watch, report, timed, chain>>

\* getPositionByWatching rejects (GPS_TIMEOUT or watchPositionAsync failed):
\* the balanced watch gives way to the high one, the high one's rejection
\* leaves the acquisition
WatchReject ==
    /\ acq.pc \in {"watch_balanced", "watch_high"}
    /\ acq' = IF acq.pc = "watch_balanced"
              THEN [acq EXCEPT !.pc = "watch_high", !.skipped = 0]
              ELSE [acq EXCEPT !.pc = "check", !.result = None, !.failure = "all_failed"]
    /\ alert' = NoAlert
    /\ UNCHANGED <<now, sessionOk, mounted, shifts, events, att, busy, clockInConfirmOpen,
                   clockOutConfirmOpen, watchdog, ops, nOps, reloads, logoutPc, nFocus,
                   relay, geo, watch, report, timed, chain>>

\* the outer withTimeout(GPS_TOTAL_TIMEOUT_MS) rejects first
TotalTimeout ==
    /\ acq.pc \in StrategyPcs
    /\ acq' = [acq EXCEPT !.pc = "check", !.result = None, !.failure = "deadline"]
    /\ alert' = NoAlert
    /\ UNCHANGED <<now, sessionOk, mounted, shifts, events, att, busy, clockInConfirmOpen,
                   clockOutConfirmOpen, watchdog, ops, nOps, reloads, logoutPc, nFocus,
                   relay, geo, watch, report, timed, chain>>

\* the checks of getCurrentLocationChecked on the result (null when thrown)
AcqChecked ==
    /\ acq.pc = "check"
    /\ acq' = [acq EXCEPT !.pc = "done", !.checked = Some(CheckedLoc(acq.result))]
    /\ alert' = IF IsSome(CheckedLoc(acq.result).alert)
                THEN Get(CheckedLoc(acq.result).alert) ELSE NoAlert
    /\ UNCHANGED <<now, sessionOk, mounted, shifts, events, att, busy, clockInConfirmOpen,
                   clockOutConfirmOpen, watchdog, ops, nOps, reloads, logoutPc, nFocus,
                   relay, geo, watch, report, timed, chain>>

LocationNext ==
    \/ AcqStart
    \/ LastKnownAnswer
    \/ CurrentLowestAnswer
    \/ WatchCallback
    \/ WatchReject
    \/ TotalTimeout
    \/ AcqChecked

LocationSpec == Init /\ [][LocationNext]_vars

\* ------------------------------------------------- send-hazard-push relay
\* One request to the edge function, from Deno.serve's handler.
CHUNK == 90

MaxAdmins == 270     \* admin rows with a token that the profiles query returns

AdminCounts == {0, 1, CHUNK - 1, CHUNK, CHUNK + 1, 2 * CHUNK, 250, MaxAdmins}

\* an expo_push_token: leading / trailing blanks or not, how it starts, and
\* the rest of it
PushToken(pad, prefix, id) == [pad |-> pad, prefix |-> prefix, id |-> id]

\* String(r.expo_push_token || "").trim()
Trim(t) == [t EXCEPT !.pad = FALSE]

\* t.startsWith("ExponentPushToken[") || t.startsWith("ExpoPushToken[")
StartsWithPushPrefix(t) ==
    ~t.pad /\ t.prefix \in {"ExponentPushToken[", "ExpoPushToken["}

\* the tables the profiles query can answer with: every token well formed;
\* well formed, padded and malformed tokens in turn; no token well formed
AdminPatterns == {"all", "mixed", "none"}

AdminToken(i, pattern) ==
    IF pattern = "all" THEN PushToken(FALSE, "ExponentPushToken[", i)
    ELSE IF pattern = "mixed"
    THEN (IF i % 3 = 1 THEN PushToken(FALSE, "ExponentPushToken[", i)
          ELSE IF i % 3 = 2 THEN PushToken(TRUE, "ExpoPushToken[", i)
          ELSE PushToken(FALSE, "ExpoPushToken", i))
    ELSE (IF i % 2 = 0 THEN PushToken(FALSE, "", i)
          ELSE PushToken(TRUE, "expo[", i))

Admins(n, pattern) ==
    [i \in 1..n |-> [id |-> i, expo_push_token |-> AdminToken(i, pattern)]]

\* (admins || []).map(trim).filter(startsWith ...)
EligibleTokens(admins) ==
    SelectSeq([i \in 1..Len(admins) |-> Trim(admins[i].expo_push_token)],
              StartsWithPushPrefix)

Min(a, b) == IF a < b THEN a ELSE b

\* (variant) a slice that runs one token into the next chunk
SliceOneMore(tokens, i) == SubSeq(tokens, i + 1, Min(i + CHUNK + 1, Len(tokens)))

\* tokens.slice(i, i + CHUNK), i counted from 0
Slice(tokens, i) == SubSeq(tokens, i + 1, Min(i + CHUNK, Len(tokens)))

\* buildMessages: one message per token of the chunk, in order
buildMessages(chunk) == [k \in 1..Len(chunk) |-> [to |-> chunk[k]]]

\* json(status, data); absent keys are None
Response(status) ==
    [status |-> status, ok |-> None, sent |-> None, reason |-> None,
     adminCountWithToken |-> None, results |-> None, error |-> None]

\* what RelayRequest leaves behind: the request with its method and whether
\* the environment holds both keys, and whether Deno.env was read
Gated(method, env, envRead, status, error) ==
    [pc |-> "done", request |-> [method |-> method, env |-> env], envRead |-> envRead,
     response |-> [Response(status) EXCEPT !.error = error]]

\* (variant) a handler without the method check
RelayRequestNoMethodCheck ==
    /\ relay = NoRelay
    /\ \E method \in {"POST", "OPTIONS", "GET"}, env \in BOOLEAN :
        relay' =
          IF method = "OPTIONS" THEN Gated(method, env, FALSE, 204, None)
          ELSE IF ~env
          THEN Gated(method, env, TRUE, 500, Some("Missing env"))
          ELSE [pc |-> "admins", request |-> [method |-> method, env |-> env],
                envRead |-> TRUE]
    /\ alert' = NoAlert
    /\ UNCHANGED <<now, sessionOk, mounted, shifts, events, att, busy, clockInConfirmOpen,
                   clockOutConfirmOpen, watchdog, ops, nOps, reloads, logoutPc, nFocus,
                   acq, geo, watch, report, timed, chain>>

\* the request arrives: preflight, method check, environment check
RelayRequest ==
    /\ relay = NoRelay
    /\ \E method \in {"POST", "OPTIONS", "GET"}, env \in BOOLEAN :
        relay' =
          IF method = "OPTIONS" THEN Gated(method, env, FALSE, 204, None)
          ELSE IF method # "POST"
          THEN Gated(method, env, FALSE, 405, Some("Method Not Allowed"))
          ELSE IF ~env
          THEN Gated(method, env, TRUE, 500, Some("Missing env"))
          ELSE [pc |-> "admins", request |-> [method |-> method, env |-> env],
                envRead |-> TRUE]
    /\ alert' = NoAlert
    /\ UNCHANGED <<now, sessionOk, mounted, shifts, events, att, busy, clockInConfirmOpen,
                   clockOutConfirmOpen, watchdog, ops, nOps, reloads, logoutPc, nFocus,
                   acq, geo, watch, report, timed, chain>>

\* (variant) no early answer for an empty token list
AfterAdminsNoEarlyReturn(admins) ==
    [pc |-> "loop", admins |-> admins, tokens |-> EligibleTokens(admins),
     i |-> 0, results |-> <<>>, sent |-> 0, calls |-> <<>>]

\* the relay's state once the admin rows are in: empty token list -> answer,
\* else enter the loop
AfterAdmins(admins) ==
    IF Len(EligibleTokens(admins)) = 0
    THEN [pc |-> "done", admins |-> admins, tokens |-> <<>>, calls |-> <<>>,
          results |-> <<>>,
          response |-> [Response(200) EXCEPT !.ok = Some(TRUE), !.sent = Some(0),
                                             !.reason = Some("no_admin_tokens")]]
    ELSE [pc |-> "loop", admins |-> admins, tokens |-> EligibleTokens(admins),
          i |-> 0, results |-> <<>>, sent |-> 0, calls |-> <<>>]

\* the profiles query answers an error, throws (the handler's catch), or
\* answers the admin rows
RelayAdmins ==
    /\ relay.pc = "admins"
    /\ \/ \E error \in {"Failed to fetch admin tokens", "thrown"} :
             relay' = [pc |-> "done", queried |-> TRUE,
                       response |-> [Response(500) EXCEPT !.error = Some(error)]]
       \/ \E n \in AdminCounts, pattern \in AdminPatterns :
             relay' = AfterAdmins(Admins(n, pattern))
    /\ alert' = NoAlert
    /\ UNCHANGED <<now, sessionOk, mounted, shifts, events, att, busy, clockInConfirmOpen,
                   clockOutConfirmOpen, watchdog, ops, nOps, reloads, logoutPc, nFocus,
                   acq, geo, watch, report, timed, chain>>

\* (variant) a loop that stops at the first call that is not ok
RelaySendStopsOnFailure ==
    /\ relay.pc = "loop"
    /\ relay.i < Len(relay.tokens)
    /\ LET chunk == Slice(relay.tokens, relay.i)
           messages == buildMessages(chunk)
       IN  \E r \in {"ok", "not_ok", "throw"} :
             relay' =
               IF r = "throw"
               THEN [pc |-> "done", admins |-> relay.admins, tokens |-> relay.tokens,
                     calls |-> Append(relay.calls, messages),
                     results |-> relay.results,
                     response |-> [Response(500) EXCEPT !.error = Some("fetch failed")]]
               ELSE [relay EXCEPT
                       !.calls = Append(@, messages),
                       !.results = Append(@, [ok |-> r = "ok", size |-> Len(chunk)]),
                       !.sent = IF r = "ok" THEN @ + Len(chunk) ELSE @,
                       !.i = IF r = "ok" THEN @ + CHUNK ELSE Len(relay.tokens)]
    /\ alert' = NoAlert
    /\ UNCHANGED <<now, sessionOk, mounted, shifts, events, att, busy, clockInConfirmOpen,
                   clockOutConfirmOpen, watchdog, ops, nOps, reloads, logoutPc, nFocus,
                   acq, geo, watch, report, timed, chain>>

\* one turn of the loop: slice, buildMessages, await sendExpoPush.  fetch
\* answers with res.ok true or false, or rejects (caught by the handler's
\* catch: 500)
RelaySend ==
    /\ relay.pc = "loop"
    /\ relay.i < Len(relay.tokens)
    /\ LET chunk == Slice(relay.tokens, relay.i)
           messages == buildMessages(chunk)
       IN  \E r \in {"ok", "not_ok", "throw"} :
             relay' =
               IF r = "throw"
               THEN [pc |-> "done", admins |-> relay.admins, tokens |-> relay.tokens,
                     calls |-> Append(relay.calls, messages),
                     results |-> relay.results,
                     response |-> [Response(500) EXCEPT !.error = Some("fetch failed")]]
               ELSE [relay EXCEPT
                       !.calls = Append(@, messages),
                       !.results = Append(@, [ok |-> r = "ok", size |-> Len(chunk)]),
                       !.sent = IF r = "ok" THEN @ + Len(chunk) ELSE @,
                       !.i = @ + CHUNK]
    /\ alert' = NoAlert
    /\ UNCHANGED <<now, sessionOk, mounted, shifts, events, att, busy, clockInConfirmOpen,
                   clockOutConfirmOpen, watchdog, ops, nOps, reloads, logoutPc, nFocus,
                   acq, geo, watch, report, timed, chain>>

\* (variant) an answer that counts every admin row as a token
RelayRespondCountsRows ==
    /\ relay.pc = "loop"
    /\ relay.i >= Len(relay.tokens)
    /\ relay' = [pc |-> "done", admins |-> relay.admins, tokens |-> relay.tokens,
                 calls |-> relay.calls, results |-> relay.results,
                 response |-> [Response(200) EXCEPT
                                  !.ok = Some(TRUE),
                                  !.adminCountWithToken = Some(Len(relay.admins)),
                                  !.sent = Some(relay.sent),
                                  !.results = Some(relay.results)]]
    /\ alert' = NoAlert
    /\ UNCHANGED <<now, sessionOk, mounted, shifts, events, att, busy, clockInConfirmOpen,
                   clockOutConfirmOpen, watchdog, ops, nOps, reloads, logoutPc, nFocus,
                   acq, geo, watch, report, timed, chain>>

\* the loop is over: json(200, { ok, adminCountWithToken, sent, results })
RelayRespond ==
    /\ relay.pc = "loop"
    /\ relay.i >= Len(relay.tokens)
    /\ relay' = [pc |-> "done", admins |-> relay.admins, tokens |-> relay.tokens,
                 calls |-> relay.calls, results |-> relay.results,
                 response |-> [Response(200) EXCEPT
                                  !.ok = Some(TRUE),
                                  !.adminCountWithToken = Some(Len(relay.tokens)),
                                  !.sent = Some(relay.sent),
                                  !.results = Some(relay.results)]]
    /\ alert' = NoAlert
    /\ UNCHANGED <<now, sessionOk, mounted, shifts, events, att, busy, clockInConfirmOpen,
                   clockOutConfirmOpen, watchdog, ops, nOps, reloads, logoutPc, nFocus,
                   acq, geo, watch, report, timed, chain>>

RelayNext ==
    \/ RelayRequest
    \/ RelayAdmins
    \/ RelaySend
    \/ RelayRespond

RelaySpec == Init /\ [][RelayNext]_vars

\* ----------------------------------------------------- getPositionByWatching
\* One call, taken alone.  `settled` and `sub` are the locals of the promise
\* executor; `active` says that the watch started by watchPositionAsync is
\* delivering (from the start until remove() is called on the subscription);
\* `timer` that the setTimeout is pending; `settles` counts resolve / reject.
WatchFrame ==
    UNCHANGED <<now, sessionOk, mounted, shifts, events, att, busy, clockInConfirmOpen,
                clockOutConfirmOpen, watchdog, ops, nOps, reloads, logoutPc, nFocus,
                acq, relay, geo, report, timed, chain>>

\* sub?.remove()
RemoveSub(w) == IF w.sub THEN [w EXCEPT !.active = FALSE] ELSE w

\* new Promise(...): arm the timer, call watchPositionAsync
WatchStart ==
    /\ watch = NoWatch
    /\ \E accuracy \in {"Balanced", "High"} :
         watch' = [pc |-> "watching", accuracy |-> accuracy, settled |-> FALSE,
                   sub |-> FALSE, created |-> "pending", active |-> TRUE, timer |-> TRUE,
                   skipped |-> 0, settles |-> 0, outcome |-> "", pos |-> None]
    /\ alert' = NoAlert
    /\ WatchFrame

\* watchPositionAsync resolves: .then((s) => { sub = s })
WatchSubCreated ==
    /\ watch.pc = "watching" /\ watch.created = "pending"
    /\ watch' = [watch EXCEPT !.created = "yes", !.sub = TRUE]
    /\ alert' = NoAlert
    /\ WatchFrame

\* watchPositionAsync rejects, no watch running: .catch
WatchSubFailed ==
    /\ watch.pc = "watching" /\ watch.created = "pending"
    /\ watch' = IF watch.settled
                THEN [watch EXCEPT !.created = "failed", !.active = FALSE]
                ELSE [watch EXCEPT !.created = "failed", !.active = FALSE,
                                   !.settled = TRUE, !.timer = FALSE,
                                   !.settles = @ + 1, !.outcome = "failed"]
    /\ alert' = NoAlert
    /\ WatchFrame

\* the watch delivers a fix to the callback
WatchFix ==
    /\ watch.pc = "watching" /\ watch.active
    /\ \E pos \in Positions :
         IF watch.settled THEN watch' = watch
         ELSE IF ~IsFinite(pos.latitude) \/ ~IsFinite(pos.longitude)
         THEN /\ watch.skipped < MaxSkipped
              /\ watch' = [watch EXCEPT !.skipped = @ + 1]
         ELSE watch' = [RemoveSub(watch) EXCEPT !.settled = TRUE, !.timer = FALSE,
                                                !.settles = @ + 1, !.outcome = "resolved",
                                                !.pos = Some(pos)]
    /\ alert' = NoAlert
    /\ WatchFrame

\* the timer fires after ms
WatchTimer ==
    /\ watch.pc = "watching" /\ watch.timer
    /\ watch' = IF watch.settled THEN [watch EXCEPT !.timer = FALSE]
                ELSE [RemoveSub(watch) EXCEPT !.settled = TRUE, !.timer = FALSE,
                                              !.settles = @ + 1, !.outcome = "timeout"]
    /\ alert' = NoAlert
    /\ WatchFrame

WatchNext ==
    \/ WatchStart
    \/ WatchSubCreated
    \/ WatchSubFailed
    \/ WatchFix
    \/ WatchTimer

WatchSpec == Init /\ [][WatchNext]_vars

\* ------------------------------------------------ one operation with its timers
\* doClockIn / doClockOut from setBusy(true) on, with the time in seconds
\* since then.  `pc` is the await the call is at, `since` when it began,
\* `armedAt` when the watchdog's pending timer was set (None: no timer
\* pending), `fired` that the watchdog's callback has run.
WATCHDOG_S == 35

\* the withTimeout of each await: hasServicesEnabledAsync, getForeground-
\* PermissionsAsync, requestForegroundPermissionsAsync, the acquisition
\* (GPS_TOTAL_TIMEOUT_MS), the upsert, the work_events insert
TimeoutOf(pc) ==
    CASE pc = "services" -> 6
      [] pc = "perm" -> 8
      [] pc = "request" -> 8
      [] pc = "acquire" -> 25
      [] pc = "upsert" -> 12
      [] pc = "event" -> 12

TimedPcs == {"services", "perm", "request", "acquire", "upsert", "event"}

TimedFrame ==
    UNCHANGED <<now, sessionOk, mounted, shifts, events, att, busy, clockInConfirmOpen,
                clockOutConfirmOpen, watchdog, ops, nOps, reloads, logoutPc, nFocus,
                acq, relay, geo, watch, report, chain>>

\* the call goes on to the await `pc`
TimedGoto(pc) == [timed EXCEPT !.pc = pc, !.since = timed.t]

\* startWatchdog("서버 저장") before the upsert: the pending timer is cleared
\* and a new one set
TimedToUpsert == [TimedGoto("upsert") EXCEPT !.armedAt = Some(timed.t)]

\* finally: stopWatchdog(), setBusy(false)
TimedFinally == [timed EXCEPT !.pc = "done", !.armedAt = None, !.busy = FALSE]

\* setBusy(true), startWatchdog("시작"), startWatchdog("위치 확인"),
\* getCurrentLocationChecked() begins
TimedStart ==
    /\ timed = NoTimed
    /\ \E kind \in {"in", "out"} :
         timed' = [pc |-> "services", kind |-> kind, t |-> 0, since |-> 0,
                   armedAt |-> Some(0), busy |-> TRUE, fired |-> FALSE]
    /\ alert' = NoAlert
    /\ TimedFrame

\* a second passes: no pending timer is passed over
TimedTick ==
    /\ timed.pc \in TimedPcs
    /\ timed.t < timed.since + TimeoutOf(timed.pc)
    /\ IsSome(timed.armedAt) => timed.t < Get(timed.armedAt) + WATCHDOG_S
    /\ timed' = [timed EXCEPT !.t = @ + 1]
    /\ alert' = NoAlert
    /\ TimedFrame

\* the await of a location step settles: it answers and the call goes on or
\* returns null, or it throws / times out and the outer catch hands on the
\* fallback fix
TimedLocation ==
    /\ timed.pc \in {"services", "perm", "request", "acquire"}
    /\ \/ /\ timed.pc = "services"
          /\ timed' \in {TimedGoto("perm"), TimedFinally, TimedToUpsert}
       \/ /\ timed.pc = "perm"
          /\ timed' \in {TimedGoto("request"), TimedGoto("acquire"), TimedToUpsert}
       \/ /\ timed.pc = "request"
          /\ timed' \in {TimedGoto("acquire"), TimedFinally, TimedToUpsert}
       \/ /\ timed.pc = "acquire"
          /\ timed' \in {TimedFinally, TimedToUpsert}
    /\ alert' = NoAlert
    /\ TimedFrame

\* the upsert settles: its answer lets the insert go out, its error or
\* timeout ends the call
TimedUpsert ==
    /\ timed.pc = "upsert"
    /\ timed' \in {TimedGoto("event"), TimedFinally}
    /\ alert' = NoAlert
    /\ TimedFrame

\* the work_events insert settles one way or the other
TimedEvent ==
    /\ timed.pc = "event"
    /\ timed' = TimedFinally
    /\ alert' = NoAlert
    /\ TimedFrame

\* the watchdog's timer fires 35 s after it was set
TimedWatchdog ==
    /\ timed.pc \in TimedPcs
    /\ IsSome(timed.armedAt) /\ timed.t = Get(timed.armedAt) + WATCHDOG_S
    /\ timed' = [timed EXCEPT !.armedAt = None, !.busy = FALSE, !.fired = TRUE]
    /\ alert' = Msg("delayed", <<>>)
    /\ TimedFrame

TimedNext ==
    \/ TimedStart
    \/ TimedTick
    \/ TimedLocation
    \/ TimedUpsert
    \/ TimedEvent
    \/ TimedWatchdog

TimedSpec == Init /\ [][TimedNext]_vars

\* ------------------------------------- the strategy chain and its outer deadline
\* getReliablePositionForPhoneTotalTimeout: the async function that runs the
\* strategies (`pc`, begun at `since`) and the withTimeout around it (`outer`).
\* Times are in half seconds.  `active` holds the watches whose subscription
\* is delivering; a watch's subscription is stored as soon as it starts.
\* `lateStart`: a strategy was started after the outer promise had settled.
GPS_TOTAL_TIMEOUT_HS == 50

\* the timeouts of the four strategies: 2500, 8000, 9000, 9000 ms
StrategyTimeoutHs == <<5, 16, 18, 18>>

ChainFrame ==
    UNCHANGED <<now, sessionOk, mounted, shifts, events, att, busy, clockInConfirmOpen,
                clockOutConfirmOpen, watchdog, ops, nOps, reloads, logoutPc, nFocus,
                acq, relay, geo, watch, report, timed>>

Watches == {"watch_balanced", "watch_high"}

ChainBegin ==
    /\ chain = NoChain
    /\ chain' = [pc |-> "last_known", t |-> 0, since |-> 0, outer |-> "pending",
                 active |-> {}, lateStart |-> FALSE]
    /\ alert' = NoAlert
    /\ ChainFrame

\* half a second passes: no pending timer is passed over
ChainTick ==
    /\ chain.pc \in StrategyPcs
    /\ chain.t < chain.since + StrategyTimeoutHs[StrategyIndex(chain.pc)]
    /\ chain.outer = "pending" => chain.t < GPS_TOTAL_TIMEOUT_HS
    /\ chain' = [chain EXCEPT !.t = @ + 1]
    /\ alert' = NoAlert
    /\ ChainFrame

\* the strategy at hand returns a position: a watch removes its
\* subscription, the function returns { pos, source }
ChainAnswer ==
    /\ chain.pc \in StrategyPcs
    /\ chain' = [chain EXCEPT !.pc = "returned", !.active = @ \ {chain.pc},
                              !.outer = IF @ = "pending" THEN "resolved" ELSE @]
    /\ alert' = NoAlert
    /\ ChainFrame

\* the strategy at hand gives nothing (null, a throw, its timeout): the next
\* one is started, or, after the fourth, the function throws
ChainFail ==
    /\ chain.pc \in StrategyPcs
    /\ LET k == StrategyIndex(chain.pc)
       IN  chain' =
             IF k < Len(Strategies)
             THEN [chain EXCEPT !.pc = Strategies[k + 1], !.since = chain.t,
                                !.active = (@ \ {chain.pc})
                                           \cup ({Strategies[k + 1]} \cap Watches),
                                !.lateStart = @ \/ chain.outer # "pending"]
             ELSE [chain EXCEPT !.pc = "threw", !.active = @ \ {chain.pc},
                                !.outer = IF @ = "pending" THEN "rejected" ELSE @]
    /\ alert' = NoAlert
    /\ ChainFrame

\* withTimeout's timer rejects the outer promise; the function runs on
ChainDeadline ==
    /\ chain.pc \in StrategyPcs
    /\ chain.outer = "pending" /\ chain.t = GPS_TOTAL_TIMEOUT_HS
    /\ chain' = [chain EXCEPT !.outer = "rejected"]
    /\ alert' = NoAlert
    /\ ChainFrame

ChainNext ==
    \/ ChainBegin
    \/ ChainTick
    \/ ChainAnswer
    \/ ChainFail
    \/ ChainDeadline

ChainSpec == Init /\ [][ChainNext]_vars

\* --------------------------------------------------------- hazard reports
\* The report form (reportPhotos, reportComment, reportOpen), the state
\* reportUploading, and the submitReport calls: `pc` is the await a call is
\* at, photos and comment are those of its closure, pushed says that it has
\* invoked send-hazard-push and pushOk how that went.  uploads, inserts and
\* pushes count the objects stored, the hazard_reports rows inserted and the
\* send-hazard-push invocations made.
ReportFrame ==
    UNCHANGED <<now, sessionOk, mounted, shifts, events, att, busy, clockInConfirmOpen,
                clockOutConfirmOpen, watchdog, ops, nOps, reloads, logoutPc, nFocus,
                acq, relay, geo, watch, timed, chain>>

TapIds == 1..MaxTaps

\* reportComment: blanks around `chars` other characters
Comment(blanks, chars) == [blanks |-> blanks, chars |-> chars]

\* reportComment.trim().length
TrimmedLength(comment) == comment.chars

NoCall == [pc |-> "free", photos |-> 0, comment |-> Comment(0, 0), pushed |-> FALSE,
           pushOk |-> FALSE, end |-> ""]

ReportInFlightPcs == {"session", "upload", "insert", "push"}

\* the report modal is opened and filled in
ReportOpen ==
    /\ report = NoReport
    /\ \E photos \in 0..2, blanks \in {0, 2}, chars \in 0..2 :
         report' = [pc |-> "open", open |-> TRUE, photos |-> photos,
                    comment |-> Comment(blanks, chars), uploading |-> FALSE,
                    calls |-> [c \in TapIds |-> NoCall], taps |-> 0,
                    uploads |-> 0, inserts |-> 0, pushes |-> 0]
    /\ alert' = NoAlert
    /\ ReportFrame

\* a tap on the submit button (disabled={reportUploading}): submitReport
\* passes `if (reportUploading) return` and awaits getSession()
ReportTap ==
    /\ report.pc = "open" /\ report.open
    /\ ~report.uploading
    /\ report.taps < MaxTaps
    /\ report' = [report EXCEPT
                    !.taps = @ + 1,
                    !.calls[report.taps + 1] =
                        [NoCall EXCEPT !.pc = "session", !.photos = report.photos,
                                       !.comment = report.comment]]
    /\ alert' = NoAlert
    /\ ReportFrame

\* finally: setReportUploading(false)
ReportEnd(c, how) ==
    [report EXCEPT !.calls[c].pc = "done", !.calls[c].end = how, !.uploading = FALSE]

\* getSession() answers: the three checks, then setReportUploading(true)
ReportSession(c) ==
    /\ report.pc = "open" /\ report.calls[c].pc = "session"
    /\ \E session \in BOOLEAN :
         LET call == report.calls[c]
             why == IF ~session THEN "session"
                    ELSE IF call.photos = 0 THEN "photo_needed"
                    ELSE IF TrimmedLength(call.comment) < 2 THEN "comment_needed"
                    ELSE ""
         IN  IF why # ""
             THEN /\ report' = [report EXCEPT !.calls[c].pc = "done", !.calls[c].end = why]
                  /\ alert' = Msg(why, <<>>)
             ELSE /\ report' = [report EXCEPT !.calls[c].pc = "upload", !.uploading = TRUE]
                  /\ alert' = NoAlert
    /\ ReportFrame

\* the storage upload settles
ReportUpload(c) ==
    /\ report.pc = "open" /\ report.calls[c].pc = "upload"
    /\ \/ /\ report' = [report EXCEPT !.calls[c].pc = "insert", !.uploads = @ + 1]
          /\ alert' = NoAlert
       \/ /\ report' = ReportEnd(c, "upload_failed")
          /\ alert' = Msg("report_failed", <<>>)
    /\ ReportFrame

\* the hazard_reports insert settles
ReportInsert(c) ==
    /\ report.pc = "open" /\ report.calls[c].pc = "insert"
    /\ \/ /\ report' = [report EXCEPT !.calls[c].pc = "push", !.calls[c].pushed = TRUE,
                                      !.inserts = @ + 1, !.pushes = @ + 1]
          /\ alert' = NoAlert
       \/ /\ report' = ReportEnd(c, "insert_failed")
          /\ alert' = Msg("report_failed", <<>>)
    /\ ReportFrame

\* the send-hazard-push invocation settles, its failure or timeout swallowed:
\* the success alert, the form closed and emptied, the finally
ReportPush(c) ==
    /\ report.pc = "open" /\ report.calls[c].pc = "push"
    /\ \E ok \in BOOLEAN :
         report' = [ReportEnd(c, "ok") EXCEPT !.calls[c].pushOk = ok,
                       !.open = FALSE, !.photos = 0, !.comment = Comment(0, 0)]
    /\ alert' = Msg("report_done", <<>>)
    /\ ReportFrame

ReportNext ==
    \/ ReportOpen
    \/ ReportTap
    \/ \E c \in TapIds : ReportSession(c)
    \/ \E c \in TapIds : ReportUpload(c)
    \/ \E c \in TapIds : ReportInsert(c)
    \/ \E c \in TapIds : ReportPush(c)

ReportSpec == Init /\ [][ReportNext]_vars

\* ------------------------------------------ distanceMeters in rounded arithmetic
\* The haversine is evaluated in binary fixed point with One as the unit and
\* every product and quotient rounded to the nearest unit, the sign apart, as
\* IEEE arithmetic rounds to the nearest double.  Angles are whole degrees.
One == 16384

R_KM == 6371         \* R = 6371000, in kilometres

RoundDiv(n, d) == IF n >= 0 THEN (2 * n + d) \div (2 * d) ELSE -((2 * (-n) + d) \div (2 * d))

\* x * y of two numbers in units of One
Mul(x, y) == RoundDiv(x * y, One)

\* Math.PI
PI == 51472

\* toRad: (v * Math.PI) / 180
toRad(v) == RoundDiv(v * PI, 180)

\* Math.sin and Math.cos on [-PI/2, PI/2], by their power series
Sin(x) ==
    LET z == Mul(x, x)
        t4 == One - RoundDiv(z, 72)
        t3 == One - RoundDiv(Mul(z, t4), 42)
        t2 == One - RoundDiv(Mul(z, t3), 20)
        t1 == One - RoundDiv(Mul(z, t2), 6)
    IN  Mul(x, t1)

Cos(x) ==
    LET z == Mul(x, x)
        t5 == One - RoundDiv(z, 90)
        t4 == One - RoundDiv(Mul(z, t5), 56)
        t3 == One - RoundDiv(Mul(z, t4), 30)
        t2 == One - RoundDiv(Mul(z, t3), 12)
    IN  One - RoundDiv(Mul(z, t2), 2)

\* Math.sqrt: NaN below zero
Sqrt(x) == IF x < 0 THEN NaN ELSE Num(ISqrt(x * One))

\* atan(2^-i), i = 0..14
AtanTable == <<12868, 7596, 4014, 2037, 1023, 512, 256, 128, 64, 32, 16, 8, 4, 2, 1>>

RECURSIVE Pow2(_)
Pow2(i) == IF i = 0 THEN 1 ELSE 2 * Pow2(i - 1)

\* the angle of the vector (x, y), x >= 0, turned onto the axis step by step
RECURSIVE AtanFrom(_, _, _, _)
AtanFrom(x, y, z, i) ==
    IF i > Len(AtanTable) \/ y = 0 THEN z
    ELSE IF y > 0
    THEN AtanFrom(x + y \div Pow2(i - 1), y - x \div Pow2(i - 1), z + AtanTable[i], i + 1)
    ELSE AtanFrom(x - y \div Pow2(i - 1), y + x \div Pow2(i - 1), z - AtanTable[i], i + 1)

\* Math.atan2(y, x) for x >= 0: NaN when an argument is NaN
Atan2(y, x) ==
    IF ~(y.fin /\ x.fin) THEN NaN ELSE Num(AtanFrom(x.v, y.v, 0, 1))

\* the a of distanceMeters
HaversineA(lat1, lon1, lat2, lon2) ==
    LET dLat == toRad(lat2 - lat1)
        dLon == toRad(lon2 - lon1)
        sLat == Sin(RoundDiv(dLat, 2))
        sLon == Sin(RoundDiv(dLon, 2))
    IN  Mul(sLat, sLat) + Mul(Mul(Cos(toRad(lat1)), Cos(toRad(lat2))), Mul(sLon, sLon))

\* distanceMeters, the value in metres
distanceMetersRounded(lat1, lon1, lat2, lon2) ==
    LET a == HaversineA(lat1, lon1, lat2, lon2)
        c == Atan2(Sqrt(a), Sqrt(One - a))
    IN  IF ~c.fin THEN NaN ELSE Num(1000 * Mul(R_KM, 2 * c.v))

\* valid coordinates: latitudes and longitudes in whole degrees, the
\* differences of longitude within a half turn
ProbeLats == {3 * k - 90 : k \in 0..60}
ProbeLons == {0, 127, 180}
Coords == {[lat |-> la, lon |-> lo] : la \in ProbeLats, lo \in ProbeLons}

\* one measurement: distanceMeters(p, q), distanceMeters(q, p), distanceMeters(p, p)
Measure ==
    /\ geo = NoGeo
    /\ \E p \in Coords, q \in Coords :
         geo' = [pc |-> "done", p |-> p, q |-> q,
                 pq |-> distanceMetersRounded(p.lat, p.lon, q.lat, q.lon),
                 qp |-> distanceMetersRounded(q.lat, q.lon, p.lat, p.lon),
                 pp |-> distanceMetersRounded(p.lat, p.lon, p.lat, p.lon)]
    /\ alert' = NoAlert
    /\ UNCHANGED <<now, sessionOk, mounted, shifts, events, att, busy, clockInConfirmOpen,
                   clockOutConfirmOpen, watchdog, ops, nOps, reloads, logoutPc, nFocus,
                   acq, relay, watch, report, timed, chain>>

GeoNext == Measure

GeoSpec == Init /\ [][GeoNext]_vars

\* ================================================================ claims
HasIn(a) == IsSome(a) /\ IsSome(Get(a).clock_in_at)
HasOut(a) == IsSome(a) /\ IsSome(Get(a).clock_out_at)

\* the call has sent its work_shifts upsert
SentUpsert(o) == IsSome(ops[o].workDate)

\* C1: once a clock-in (clock-out) has succeeded for a work date in the
\* session, no later call of the same kind for that date sends an upsert:
\* no call confirmed after that success ever holds a payload for the date.
IdempotentReinvocation ==
    \A o \in OpIds : \A p \in ops[o].okBefore :
        ~(/\ ops[p].kind = ops[o].kind
          /\ SentUpsert(o)
          /\ ops[o].workDate = ops[p].workDate)

\* the calls whose upsert has written the clock_<kind>_at of the date
WritesOf(kind, date) ==
    {o \in OpIds : ops[o].wroteShift /\ ops[o].kind = kind /\ ops[o].workDate = Some(date)}

\* C2: for every work date, at most one upsert of the session has written
\* clock_in_at and at most one has written clock_out_at.
AtMostOneClockPerDay ==
    \A kind \in {"in", "out"} : \A d \in 0..1 :
        Cardinality(WritesOf(kind, d)) <= 1

\* the steps of a clock-out on a today record without clock_in_at.  The
\* button never opens the confirm modal on such a record; a doClockOut whose
\* att has no clock_in_at ends at its checks - with the no-clock-in message
\* once requireSession has answered with a session - and that step sets no
\* busy, writes no work_shifts and no work_events row and leaves att alone.
ClockOutWithoutClockInStep ==
    /\ ~HasIn(att) => ~(clockOutConfirmOpen' /\ ~clockOutConfirmOpen)
    /\ \A o \in OpIds :
        (/\ ops[o].kind = "out"
         /\ ops[o].pc = "session"
         /\ ~HasIn(ops[o].attSeen)
         /\ ops'[o] # ops[o])
        => /\ ops'[o].pc = "done"
           /\ ops'[o].end \in {"no_session", "no_clock_in"}
           /\ ops'[o].end = "no_clock_in" => alert' = Msg("no_clock_in", <<>>)
           /\ ~ops'[o].setBusy /\ ~ops'[o].wroteShift /\ ~ops'[o].wroteEvent
           /\ UNCHANGED <<shifts, events, busy, att, watchdog>>

\* C3: a clock-out on a today record without clock_in_at is rejected: no
\* upsert, no event insert, busy never set, att unchanged, and the
\* no-clock-in message whenever the record check is reached (a doClockOut
\* without a session ends one check earlier, on the session alert).
ClockOutWithoutClockInRejected == [][ClockOutWithoutClockInStep]_vars

\* a doClockOut has been rejected for the missing clock-in
ClockOutRejectedSeen ==
    \E o \in OpIds :
        /\ ops[o].kind = "out" /\ ops[o].end = "no_clock_in"
        /\ alert = Msg("no_clock_in", <<>>)

\* the step that rejects a clock-in for its distance shows the distance,
\* writes no row and no event, leaves att alone and leaves busy cleared
GeofenceRejectStep ==
    \A o \in OpIds :
        (ops[o].kind = "in" /\ ops[o].pc = "acquire" /\ ops'[o].end = "out_of_range")
        => /\ alert'.title = "out_of_range" /\ alert'.body[1] > MAX_DISTANCE_M
           /\ ops'[o].pc = "done" /\ ~ops'[o].wroteShift /\ ~ops'[o].wroteEvent
           /\ ~busy'
           /\ UNCHANGED <<shifts, events, att>>

\* no clock-in holds a fix beyond the geofence once past the location phase
NoPayloadBeyondGeofence ==
    \A o \in OpIds :
        (ops[o].kind = "in" /\ IsSome(ops[o].loc) /\ ~Get(ops[o].loc).fallback)
        => Get(ops[o].loc).dist <= MAX_DISTANCE_M

\* C4: a clock-in whose fix is more than MAX_DISTANCE_M from the center never
\* holds a payload; the step that rejects it writes no row and no event,
\* leaves att alone and leaves busy cleared.
GeofenceRejectionCreatesNothing ==
    []NoPayloadBeyondGeofence /\ [][GeofenceRejectStep]_vars

\* a clock-in rejected by the geofence, then a clock-in of the same day with
\* a fix inside it that has succeeded
RejectedThenClockedIn ==
    \E o, p \in OpIds :
        /\ o < p
        /\ ops[o].kind = "in" /\ ops[o].end = "out_of_range"
        /\ ops[p].kind = "in" /\ ops[p].end = "ok" /\ ops[p].wroteShift
        /\ ops[p].workDate = Some(kstDateString(StartMinute))
        /\ \E r \in RowsOf(shifts, Get(ops[p].workDate)) :
              /\ r.clock_in_source = Some("last_known")
              /\ att = Some(r)

\* C5: the backend never holds two work_shifts rows of the user with the
\* same work_date, whatever the devices send and in whatever order.
OneRowPerWorkDate ==
    \A r1, r2 \in shifts : r1.work_date = r2.work_date => r1 = r2

\* the backend has executed the clock-in upserts of two devices for one date
TwoDevicesOneRow ==
    /\ \A o \in OpIds : ops[o].kind = "in" /\ ops[o].pc = "upserted"
    /\ \A o, p \in OpIds : ops[o].workDate = ops[p].workDate
    /\ Cardinality(shifts) = 1

\* C6: every work_shifts row with clock_out_at has clock_in_at.
ClockOutImpliesClockIn ==
    \A r \in shifts : IsSome(r.clock_out_at) => IsSome(r.clock_in_at)

\* one step of the status of the rows
StatusStep ==
    /\ \A r2 \in shifts' :
        RowsOf(shifts, r2.work_date) = {} => r2.status = "open"
    /\ \A r \in shifts : \A r2 \in RowsOf(shifts', r.work_date) :
        /\ r.status = "closed" => r2.status = "closed"
        /\ (r.status # "closed" /\ r2.status = "closed")
           => \E o \in OpIds : /\ ops[o].kind = "out"
                               /\ ops[o].pc = "upsert" /\ ops'[o].pc = "upserted"

\* C7: a row is born open, becomes closed only by the upsert of a clock-out,
\* and once closed is never open again.
StatusOnlyForward == [][StatusStep]_vars

\* the columns of the clock-out payload
ClockOutColumns ==
    {"status", "clock_out_at", "clock_out_lat", "clock_out_lng",
     "clock_out_accuracy_m", "clock_out_source"}

ClockOutUpsertStep ==
    \A o \in OpIds :
        (ops[o].kind = "out" /\ ops[o].pc = "upsert" /\ ops'[o].pc = "upserted")
        => \A r \in shifts : \E r2 \in shifts' :
              /\ r2.id = r.id
              /\ \A f \in DOMAIN r :
                    (r.work_date # Get(ops[o].workDate) \/ f \notin ClockOutColumns)
                    => r2[f] = r[f]

\* C8: the upsert of a clock-out leaves every column of the day's row other
\* than status and the clock_out columns as it was, and every other row too.
ClockOutKeepsClockIn == [][ClockOutUpsertStep]_vars

\* a clock-out has succeeded on a row that holds the clock-in of the day
ClockedOutAfterClockIn ==
    \E o \in OpIds :
        /\ ops[o].kind = "out" /\ ops[o].end = "ok"
        /\ \E r \in RowsOf(shifts, Get(ops[o].workDate)) :
              /\ r.status = "closed" /\ IsSome(r.clock_out_at)
              /\ r.clock_in_at = Some(StartMinute - 1)
              /\ r.clock_in_source = Some("fallback_center")

\* C9: no two calls are past the busy guard and unfinished at once.
SingleFlight ==
    Cardinality({o \in OpIds : InFlight(o)}) <= 1

\* C10: whenever a clock call has set busy, busy is eventually cleared.
BusyEventuallyCleared ==
    \A o \in OpIds : (ops[o].setBusy /\ InFlight(o) /\ busy) ~> ~busy

\* a call that had set busy has ended on its upsert's timeout, busy cleared
BusyClearedAfterTimeout ==
    \E o \in OpIds :
        ops[o].setBusy /\ ops[o].end = "upsert_timeout" /\ ~busy /\ ~watchdog.armed

\* a call leaves the service and permission checks either for the acquisition
\* (service enabled, permission granted) or by ending with nothing written
PermissionGateStep ==
    \A o \in OpIds :
        (ops[o].pc = "checks" /\ ops'[o].pc # "checks")
        => \/ ops'[o].pc = "acquire"
           \/ /\ ops'[o].pc = "done"
              /\ ~ops'[o].wroteShift /\ ~ops'[o].wroteEvent
              /\ UNCHANGED <<shifts, events, att>>

\* C11: a call reaches the work_shifts upsert only after the location service
\* was reported enabled and the permission granted; service off, permission
\* declined, a throwing or timed-out check all abort it with no write and att
\* unchanged.
PermissionGating == [][PermissionGateStep]_vars

\* the calls whose upsert fails in this step
UpsertFailing ==
    {o \in OpIds : /\ ops[o].pc \in {"upsert", "upserted"}
                   /\ ops'[o].end \in {"upsert_error", "upsert_timeout"}}

\* a failing upsert shows the failure alert and leaves att alone; a call
\* assigns att only on the answer of its upsert, to the row it answered
UpsertFailureStep ==
    /\ \A o \in UpsertFailing :
        /\ alert' = Msg(IF ops[o].kind = "in" THEN "clock_in_failed"
                        ELSE "clock_out_failed", <<>>)
        /\ att' = att
        /\ ops'[o].pc = "done" /\ ~ops'[o].wroteEvent
    /\ att' # att =>
        \/ \E o \in OpIds : /\ ops[o].pc = "upserted" /\ ops'[o].end = "ok"
                            /\ ops[o].wroteShift /\ att' = ops[o].res
        \/ reloads' # reloads

\* C12: when the upsert of a call returns an error, throws or times out, the
\* call shows the error and att keeps its value; a call assigns att only
\* after an upsert response without error.
UpsertFailureKeepsAtt == [][UpsertFailureStep]_vars

\* a clock-out whose upsert returned an error, att still the open row
UpsertFailedAttKept ==
    \E o \in OpIds :
        /\ ops[o].kind = "out" /\ ops[o].end = "upsert_error"
        /\ alert = Msg("clock_out_failed", <<>>)
        /\ HasIn(att) /\ ~HasOut(att)
        /\ \A r \in shifts : ~IsSome(r.clock_out_at)

\* the calls whose upsert answered and whose work_events insert fails in this step
EventFailing ==
    {o \in OpIds : /\ ops[o].pc = "upserted" /\ ops'[o].pc = "done"
                   /\ ops'[o].end = "ok" /\ ~ops'[o].wroteEvent}

\* the failure of the event insert is swallowed
EventFailureStep ==
    \A o \in EventFailing :
        /\ shifts' = shifts /\ events' = events
        /\ RowsOf(shifts', Get(ops[o].workDate)) # {}
        /\ IsSome(ops[o].res) /\ att' = ops[o].res
        /\ alert' = Msg(IF ops[o].kind = "in" THEN "clock_in_done" ELSE "clock_out_done",
                        formatKSTTime(ops[o].nowIso))

\* C13: when the work_events insert fails after a successful upsert, the
\* work_shifts row stays, att is set from the upsert's answer, the success
\* message is shown and no error alert.
EventAppendBestEffort == [][EventFailureStep]_vars

\* a clock-in has succeeded although its event was not stored
ClockedInWithoutEvent ==
    \E o \in OpIds :
        /\ ops[o].kind = "in" /\ ops[o].end = "ok" /\ ops[o].wroteShift /\ ~ops[o].wroteEvent
        /\ events = {}
        /\ HasIn(att) /\ Get(att) \in shifts
        /\ alert.title = "clock_in_done"

\* ---- push relay
Ceil(n, d) == (n + d - 1) \div d

RECURSIVE Recipients(_)
\* the tokens the gateway calls were addressed to, in call order
Recipients(calls) ==
    IF calls = <<>> THEN <<>>
    ELSE [k \in 1..Len(Head(calls)) |-> Head(calls)[k].to] \o Recipients(Tail(calls))

\* the relay has the token list
HasTokens == relay.pc \in {"loop", "done"} /\ "tokens" \in DOMAIN relay

\* the calls made are the first batches of the token list, each of CHUNK
\* tokens except possibly the last, and address eligible tokens only
BatchesInOrder ==
    /\ Len(relay.calls) <= Ceil(Len(relay.tokens), CHUNK)
    /\ \A k \in 1..Len(relay.calls) :
          /\ Len(relay.calls[k]) >= 1 /\ Len(relay.calls[k]) <= CHUNK
          /\ k < Ceil(Len(relay.tokens), CHUNK) => Len(relay.calls[k]) = CHUNK
    /\ Recipients(relay.calls)
         = SubSeq(relay.tokens, 1, Min(Len(relay.calls) * CHUNK, Len(relay.tokens)))
    /\ \A i \in 1..Len(relay.admins) :
          ~StartsWithPushPrefix(Trim(relay.admins[i].expo_push_token))
          => \A k \in 1..Len(relay.calls) : \A j \in 1..Len(relay.calls[k]) :
                relay.calls[k][j].to.id # relay.admins[i].id

\* every eligible token is in a batch
AllBatched ==
    /\ Len(relay.calls) = Ceil(Len(relay.tokens), CHUNK)
    /\ Recipients(relay.calls) = relay.tokens
    /\ \A i \in 1..Len(relay.admins) :
          StartsWithPushPrefix(Trim(relay.admins[i].expo_push_token))
          => \E k \in 1..Len(relay.calls) : \E j \in 1..Len(relay.calls[k]) :
                relay.calls[k][j].to = Trim(relay.admins[i].expo_push_token)

SecondBatchFailed ==
    /\ HasTokens /\ relay.pc = "done" /\ Len(relay.tokens) = 250
    /\ Len(relay.results) >= 2 /\ relay.results[1].ok /\ ~relay.results[2].ok

\* the second call for 250 tokens failed: answered not ok, or threw
SecondBatchFailedOrThrew ==
    /\ HasTokens /\ relay.pc = "done" /\ Len(relay.tokens) = 250
    /\ Len(relay.results) >= 1 /\ relay.results[1].ok
    /\ \/ Len(relay.results) >= 2 /\ ~relay.results[2].ok
       \/ Len(relay.results) = 1 /\ Len(relay.calls) = 2

RECURSIVE SentOf(_, _)
\* the sizes of the batches whose call answered ok, summed
SentOf(calls, results) ==
    IF calls = <<>> THEN 0
    ELSE (IF Head(results).ok THEN Len(Head(calls)) ELSE 0)
         + SentOf(Tail(calls), Tail(results))

\* the admin rows whose trimmed token is well formed
EligibleRows(admins) ==
    {i \in 1..Len(admins) : StartsWithPushPrefix(Trim(admins[i].expo_push_token))}

\* C19: in every 200 response that carries results, sent is the sum of the
\* sizes of the batches whose gateway call answered ok, results has one entry
\* per batch in batch order, adminCountWithToken is the number of eligible
\* tokens, and 0 <= sent <= adminCountWithToken.
RelayResponseCounts ==
    (relay.pc = "done" /\ relay.response.status = 200 /\ IsSome(relay.response.results))
    => LET res == Get(relay.response.results)
           sent == Get(relay.response.sent)
           n == Get(relay.response.adminCountWithToken)
       IN  /\ Len(res) = Len(relay.calls)
           /\ \A k \in 1..Len(res) : res[k].size = Len(relay.calls[k])
           /\ res = relay.results
           /\ sent = SentOf(relay.calls, res)
           /\ n = Cardinality(EligibleRows(relay.admins))
           /\ n = Len(relay.tokens)
           /\ 0 <= sent /\ sent <= n

\* 270 admin rows, 180 eligible tokens, two batches of which the first was sent
PartlySent ==
    /\ relay.pc = "done" /\ relay.response.status = 200
    /\ Len(relay.admins) = 270
    /\ relay.response.adminCountWithToken = Some(180)
    /\ IsSome(relay.response.results) /\ Len(Get(relay.response.results)) = 2
    /\ Get(relay.response.results)[1].ok /\ ~Get(relay.response.results)[2].ok
    /\ relay.response.sent = Some(90)

\* C20: with no eligible token (no admin row, or none well formed) the relay
\* answers 200 {ok: true, sent: 0, reason: "no_admin_tokens"} and makes no
\* gateway call.
NoTokensNoCall ==
    ("admins" \in DOMAIN relay /\ EligibleRows(relay.admins) = {})
    => /\ relay.pc = "done"
       /\ relay.calls = <<>>
       /\ relay.response = [Response(200) EXCEPT !.ok = Some(TRUE), !.sent = Some(0),
                                                 !.reason = Some("no_admin_tokens")]

\* answered no_admin_tokens for admin rows that all carry malformed tokens
NoEligibleAnswered ==
    /\ relay.pc = "done" /\ "admins" \in DOMAIN relay
    /\ Len(relay.admins) = 250 /\ EligibleRows(relay.admins) = {}
    /\ relay.response.reason = Some("no_admin_tokens")
    /\ relay.calls = <<>>

\* ---- location checks
\* the acquisition has returned a position with finite coordinates
FiniteResult ==
    /\ IsSome(acq.result)
    /\ IsFinite(Get(acq.result).pos.latitude)
    /\ IsFinite(Get(acq.result).pos.longitude)

\* the square of the distance of the returned position from the center
ResultDist2 ==
    LET dLat == Get(acq.result).pos.latitude.v - CENTER_LAT
        dLng == Get(acq.result).pos.longitude.v - CENTER_LNG
    IN  dLat * dLat + dLng * dLng

\* C14: a finite real fix goes on to the write if and only if its distance
\* from the center is <= MAX_DISTANCE_M: 1000 passes with the fix as it is,
\* 1001 is rejected with the distance in the message; whatever passes the
\* checks lies within MAX_DISTANCE_M of the center.
GeofenceInclusive ==
    acq.pc = "done" =>
      LET c == Get(acq.checked)
      IN  /\ FiniteResult =>
              /\ IsSome(c.loc) <=> ResultDist2 <= MAX_DISTANCE_M * MAX_DISTANCE_M
              /\ IsSome(c.loc) =>
                    /\ ~Get(c.loc).fallback /\ c.alert = None
                    /\ Get(c.loc).lat = Get(acq.result).pos.latitude.v
                    /\ Get(c.loc).lng = Get(acq.result).pos.longitude.v
                    /\ Get(c.loc).dist * Get(c.loc).dist = ResultDist2
              /\ ~IsSome(c.loc) =>
                    /\ IsSome(c.alert) /\ Get(c.alert).title = "out_of_range"
                    /\ Len(Get(c.alert).body) = 1
                    /\ Get(c.alert).body[1] * Get(c.alert).body[1] = ResultDist2
                    /\ Get(c.alert).body[1] > MAX_DISTANCE_M
          /\ IsSome(c.loc) =>
              (Get(c.loc).lat - CENTER_LAT) * (Get(c.loc).lat - CENTER_LAT)
              + (Get(c.loc).lng - CENTER_LNG) * (Get(c.loc).lng - CENTER_LNG)
                <= MAX_DISTANCE_M * MAX_DISTANCE_M

\* a fix at exactly 1000 m, off both axes, has passed the checks
BoundaryFixAccepted ==
    /\ acq.pc = "done" /\ FiniteResult
    /\ Get(acq.result).pos.latitude.v = CENTER_LAT + 600
    /\ Get(acq.result).pos.longitude.v = CENTER_LNG + 800
    /\ IsSome(Get(acq.checked).loc)
    /\ Get(Get(acq.checked).loc).dist = MAX_DISTANCE_M
    /\ ~Get(Get(acq.checked).loc).fallback

\* C15: when every strategy has failed or the outer deadline has passed, the
\* checks hand on - instead of null - the synthetic fix: the center, distance
\* 0, no accuracy, fallback true, source fallback_center; and a fix that
\* passed the checks has source fallback_center exactly when fallback is true.
FallbackFix ==
    acq.pc = "done" =>
      LET c == Get(acq.checked)
      IN  /\ acq.result = None =>
              /\ c.alert = None
              /\ c.loc = Some([lat |-> CENTER_LAT, lng |-> CENTER_LNG, dist |-> 0,
                               accuracy |-> None, fallback |-> TRUE,
                               source |-> "fallback_center"])
          /\ IsSome(c.loc) =>
              (Get(c.loc).source = "fallback_center" <=> Get(c.loc).fallback)
          /\ (IsSome(c.loc) /\ FiniteResult) =>
              /\ ~Get(c.loc).fallback
              /\ Get(c.loc).source = Get(acq.result).source

\* no strategy returned a position and the checks handed on the fallback fix
FellBackToCenter ==
    /\ acq.pc = "done" /\ acq.result = None
    /\ IsSome(Get(acq.checked).loc)
    /\ Get(Get(acq.checked).loc).source = "fallback_center"
    /\ alert = NoAlert

Answered500 ==
    /\ relay.pc = "done" /\ relay.response.status = 500
    /\ IsSome(relay.response.error)

\* gateway calls made so far by the request
CallsMade(r) == IF "calls" \in DOMAIN r THEN Len(r.calls) ELSE 0

RelayGateStep ==
    /\ (relay = NoRelay /\ relay' # NoRelay) =>
         LET q == relay'.request
             answered(status) == relay'.pc = "done" /\ relay'.response.status = status
         IN  /\ q.method = "OPTIONS" => (answered(204) /\ ~relay'.envRead)
             /\ q.method \notin {"OPTIONS", "POST"} => (answered(405) /\ ~relay'.envRead)
             /\ (q.method = "POST" /\ ~q.env) =>
                  (answered(500) /\ IsSome(relay'.response.error))
             /\ relay'.pc = "admins" <=> (q.method = "POST" /\ q.env)
             /\ CallsMade(relay') = 0 /\ "admins" \notin DOMAIN relay'
    /\ (relay.pc = "admins" /\ relay' # relay /\ "admins" \notin DOMAIN relay') =>
         (relay'.pc = "done" /\ relay'.response.status = 500
          /\ IsSome(relay'.response.error))
    /\ CallsMade(relay') > CallsMade(relay) =>
         (relay.pc = "loop" /\ Len(relay.tokens) >= 1)
    /\ relay.pc = "loop" => (relay' = relay \/ relay'.pc \in {"loop", "done"})

\* C21: OPTIONS is answered 204 and any other non-POST method 405, before the
\* environment is read, the profiles are queried or the gateway is called; a
\* POST with a missing key, a failed profiles query or a thrown exception is
\* answered 500 with an error message; the gateway is called only for a POST
\* with both keys and at least one eligible token.
RelayRequestGating ==
    /\ [](/\ (HasTokens /\ CallsMade(relay) > 0) => Len(relay.tokens) >= 1
          /\ (relay.pc = "done" /\ HasTokens /\ Len(relay.calls) > Len(relay.results))
               => Answered500
          /\ (relay.pc = "done" /\ "request" \in DOMAIN relay)
               => relay.response.status \in {204, 405, 500})
    /\ [][RelayGateStep]_vars

\* a GET was answered 405 with nothing read
MethodNotAllowedAnswered ==
    /\ relay.pc = "done" /\ "request" \in DOMAIN relay
    /\ relay.request.method = "GET" /\ relay.request.env
    /\ relay.response.status = 405 /\ ~relay.envRead

\* ---- distance
\* JavaScript ==: NaN equals nothing
JsEquals(x, y) == x.fin /\ y.fin /\ x.v = y.v

\* C22: for valid coordinates p and q, distanceMeters(p, q) ==
\* distanceMeters(q, p) and distanceMeters(p, p) == 0.
DistanceSymmetricZero ==
    geo.pc = "done" => (JsEquals(geo.pq, geo.qp) /\ JsEquals(geo.pp, Num(0)))

\* ---- event ordering
\* the event e repeats what the upsert answered with the row `row`
EventOfRow(e, row, kind) ==
    /\ e.shift_id = row.id
    /\ e.payload.work_date = row.work_date
    /\ IF kind = "in"
       THEN /\ e.event_type = "clock_in"
            /\ row.clock_in_at = Some(e.occurred_at)
            /\ row.clock_in_lat = Some(e.lat) /\ row.clock_in_lng = Some(e.lng)
            /\ row.clock_in_accuracy_m = e.accuracy_m
            /\ row.clock_in_source = Some(e.source)
       ELSE /\ e.event_type = "clock_out"
            /\ row.clock_out_at = Some(e.occurred_at)
            /\ row.clock_out_lat = Some(e.lat) /\ row.clock_out_lng = Some(e.lng)
            /\ row.clock_out_accuracy_m = e.accuracy_m
            /\ row.clock_out_source = Some(e.source)

EventInsertStep ==
    /\ events' # events =>
         \E o \in OpIds :
            /\ ops[o].pc = "upserted" /\ IsSome(ops[o].res)
            /\ ops[o].wroteShift /\ ~ops[o].wroteEvent
            /\ ops'[o].pc = "done" /\ ops'[o].end = "ok" /\ ops'[o].wroteEvent
            /\ \A p \in OpIds \ {o} : ops'[p] = ops[p]
            /\ \E e \in events' :
                 /\ events' = events \cup {e}
                 /\ EventOfRow(e, Get(ops[o].res), ops[o].kind)
    /\ \A o \in OpIds :
         /\ ops[o].wroteEvent => ops'[o] = ops[o]
         /\ (~ops[o].wroteEvent /\ ops'[o].wroteEvent) =>
              /\ ops[o].pc = "upserted" /\ IsSome(ops[o].res) /\ ops[o].wroteShift
              /\ \E e \in events' : EventOfRow(e, Get(ops[o].res), ops[o].kind)

\* C23: a work_events insert is made only after the work_shifts upsert of
\* the same call answered without error, with the timestamp, coordinates and
\* source of that upsert and the id of the row it answered with; a call whose
\* upsert failed or timed out, or that ended earlier, inserts no event; no
\* call inserts more than one.
EventAfterUpsert ==
    /\ [](\A o \in OpIds :
            /\ ops[o].wroteEvent => (ops[o].end = "ok" /\ ops[o].wroteShift)
            /\ (ops[o].pc = "done" /\ ops[o].end # "ok") => ~ops[o].wroteEvent)
    /\ [][EventInsertStep]_vars

\* a clock-out's event is stored next to the clock-in's
EventsOfBothKinds ==
    /\ \E e1 \in events, e2 \in events :
         /\ e1.event_type = "clock_in" /\ e2.event_type = "clock_out"
         /\ e1.shift_id = e2.shift_id
         /\ \E r \in shifts : r.id = e1.shift_id /\ r.clock_in_at = Some(e1.occurred_at)
                              /\ r.clock_out_at = Some(e2.occurred_at)
    /\ \A o \in OpIds : ops[o].end = "ok" /\ ops[o].wroteEvent

\* ---- order of the location strategies
StrategyOrderStep ==
    /\ (acq'.pc \in StrategyPcs /\ acq'.pc # acq.pc) =>
         /\ StrategyIndex(acq'.pc) = StrategyIndex(acq.pc) + 1
         /\ acq.pc # "idle" => (acq'.result = None /\ acq'.failure = "")
    /\ (acq.pc \in StrategyPcs /\ acq'.pc = "check") =>
         IF IsSome(acq'.result)
         THEN /\ Get(acq'.result).source = acq.pc
              /\ acq'.failure = ""
         ELSE \/ acq'.failure = "all_failed" /\ acq.pc = "watch_high"
              \/ acq'.failure = "deadline"
    /\ (acq.pc \in {"check", "done"}) =>
         (acq'.pc \in {"check", "done"} /\ acq'.result = acq.result
          /\ acq'.failure = acq.failure)

\* C24: the strategies run in the order last_known, current_lowest,
\* watch_balanced, watch_high, each started only when the one before it gave
\* nothing; the source of the returned position names the strategy that
\* produced it; the acquisition fails only when the fourth strategy has failed
\* after the other three, or at the outer deadline.
StrategiesInOrder ==
    /\ [](acq.pc \in {"check", "done"} =>
            /\ (acq.result = None) <=> (acq.failure \in {"all_failed", "deadline"})
            /\ IsSome(acq.result) => Get(acq.result).source \in StrategyPcs)
    /\ [][StrategyOrderStep]_vars

\* the first three strategies gave nothing and the high-accuracy watch
\* returned the position
FourthStrategyAnswered ==
    /\ acq.pc = "done" /\ IsSome(acq.result)
    /\ Get(acq.result).source = "watch_high"
    /\ acq.failure = ""

\* ---- teardown of the watch
\* C25: whatever the order of the subscription's creation, the first finite
\* fix and the timer, the call settles once, and once it has settled by a fix
\* or by the timer its watch is no longer running.
WatchTornDown ==
    watch.pc = "watching" =>
      /\ watch.settles <= 1
      /\ watch.settled <=> (watch.settles = 1)
      /\ (watch.settled /\ watch.outcome \in {"resolved", "timeout"}
          /\ watch.created # "pending") => ~watch.active

\* ---- the watchdog's deadline
\* C26: a call still in flight more than 35 s after its setBusy(true) has
\* had its watchdog fire: busy is cleared and the delay message was shown,
\* phase changes notwithstanding.
WatchdogBoundsOperation ==
    (timed.pc \in TimedPcs /\ timed.t > WATCHDOG_S) => (timed.fired /\ ~timed.busy)

\* ---- the watchdog and the call it watches
LateAnswerStep ==
    /\ alert'.title = "delayed" =>
         /\ watchdog.armed /\ InFlight(watchdog.owner)
         /\ busy' = FALSE
         /\ ops' = ops /\ shifts' = shifts /\ events' = events /\ att' = att
         /\ reloads' = reloads
    /\ \A o \in OpIds :
         (ops[o].pc = "upserted" /\ ops'[o].pc = "done" /\ ops'[o].end = "ok") =>
            /\ IsSome(ops[o].res) /\ att' = ops[o].res
            /\ alert' = Msg(IF ops[o].kind = "in" THEN "clock_in_done" ELSE "clock_out_done",
                            formatKSTTime(ops[o].nowIso))

\* C27: the watchdog's firing clears busy and shows the delay message and
\* nothing else: the call stays where it is, and when its upsert answers
\* without error afterwards, the answer's row is stored in att and the success
\* message shown, whatever busy is by then.
WatchdogDoesNotCancel == [][LateAnswerStep]_vars

\* the only call of the session has had its watchdog fire (busy is false
\* while it is in flight) and its upsert has been written since
UpsertAfterWatchdog ==
    /\ nOps = 1 /\ logoutPc = "idle" /\ mounted
    /\ ops[1].pc = "upserted" /\ ops[1].kind = "in"
    /\ ~busy /\ att = None
    /\ IsSome(ops[1].res) /\ Get(ops[1].res) \in shifts

\* ---- reloads of the today record
TodayRecordStep ==
    (IsSome(att) /\ Get(att).work_date = kstDateString(now)
     /\ kstDateString(now') = kstDateString(now)) =>
       /\ IsSome(Get(att).clock_in_at) =>
            (IsSome(att') /\ Get(att').clock_in_at = Get(att).clock_in_at)
       /\ IsSome(Get(att).clock_out_at) =>
            (IsSome(att') /\ Get(att').clock_out_at = Get(att).clock_out_at)

\* C28: while the work date is the same, a clock-in or clock-out time held
\* in att stays in att: no reload, late, failed or timed out, puts null or a
\* row without that time in its place.
TodayRecordKept == [][TodayRecordStep]_vars

\* ---- the end of the acquisition
\* C29: once getReliablePositionForPhoneTotalTimeout has settled, by a
\* position or by its deadline, no strategy is started any more and no watch
\* started by the chain is still delivering.
AcquisitionOverWhenSettled ==
    (chain.pc # "idle" /\ chain.outer # "pending") =>
       (~chain.lateStart /\ chain.active = {})

\* ---- hazard reports
ReportsInFlight == {c \in TapIds : report.calls[c].pc \in ReportInFlightPcs}

\* C30: at most one submitReport call is past its reportUploading guard at a
\* time, and a form whose submissions did not fail gives at most one upload,
\* one hazard_reports row and one push invocation; a submission whose push
\* failed has still ended in success.
ReportSingleFlight ==
    report.pc = "open" =>
      /\ Cardinality(ReportsInFlight) <= 1
      /\ (\A c \in TapIds : report.calls[c].end \in {"", "ok"}) =>
           (report.uploads <= 1 /\ report.inserts <= 1 /\ report.pushes <= 1)
      /\ \A c \in TapIds :
           (report.calls[c].pc = "done" /\ report.calls[c].pushed)
             => report.calls[c].end = "ok"

====
